---- MODULE Spec2Model ----
(***************************************************************************)
(* monroe_anal: getdf() and the helpers it is built from                   *)
(* (query_base.py, db.py, queries.py, util.py).                            *)
(*                                                                         *)
(* Time is counted in ticks of ONE_HOUR/3 seconds (20 minutes), the finest *)
(* threshold _check_freq compares against; timestamps are ticks since the  *)
(* epoch, so that midnight is a multiple of ONE_DAY.                       *)
(* A text (a WHERE clause) is the sequence of its lexical pieces, each     *)
(* either a run of word characters (\w+) or a run of other characters.     *)
(* A data frame is a record [cols, rows]: the set of its column names and  *)
(* the set of its rows, each row a function from cols to values.           *)
(***************************************************************************)
EXTENDS Integers, Sequences, FiniteSets, TLC

VARIABLES
    args,        \* the arguments of the getdf call
    now,         \* pd.Timestamp('now') of the call
    store,       \* which data the store holds
    tranges,     \* what the store holds per table: <<min time, max time>>
    cache,       \* tables whose table_timerange result is memoized (lru_cache)
    pc,          \* position of the getdf call
    err,         \* the exception getdf raised ("" if none)
    tables,      \* getdf local: the checked tables
    where,       \* getdf local: the filter clauses
    start_time,  \* getdf local: resolved start
    end_time,    \* getdf local: resolved end
    freq,        \* getdf local: resolved level-of-detail
    queries,     \* getdf local: the built queries
    sent,        \* what has been sent to the store: <<kind, table>>
    fstate,      \* query_async: state of each submitted future
    yielded,     \* query_async: indices of the futures yielded, in order
    gen,         \* query_async: the generator waits, or is suspended at yield
    dfs,         \* getdf local: the frames converted so far
    ncallback,   \* number of callback() calls
    df,          \* the table getdf returned: its columns and its set of rows
    returned,    \* the table getdf returned: its rows in the order of the index
    conn,        \* module globals: connection._timeout and query_base._timeout
    timer,       \* query_async: the timeout as_completed was called with (0: not yet)
    fn_in,       \* a helper called on its own: its name and arguments
    fn_out,      \* what that helper returned
    params,      \* module globals: which set_connection_params call set _host, _port, ...
    _client,     \* module global connection._client: the parameters it was made with
    lru,         \* queries.py: the lru_cache of each memoized lookup, oldest entry first
    thr,         \* a thread calling a memoized lookup: its position and locals
    setter,      \* a thread calling set_connection_params: its position
    used         \* per lookup, the arguments it returned for, by last use, since the caches were cleared

vars == <<args, now, store, tranges, cache, pc, err, tables, where, start_time,
          end_time, freq, queries, sent, fstate, yielded, gen, dfs, ncallback, df,
          returned, conn, timer, fn_in, fn_out, params, _client, lru, thr, setter, used>>

----------------------------------------------------------------------------
(* Bounds and sample inputs *)

MaxTables == 2
MaxSpan == 2400

Range(s) == {s[i] : i \in DOMAIN s}

RECURSIVE SeqsNoRep(_, _)
\* the sequences over S of length at most n in which no element repeats
SeqsNoRep(S, n) ==
    IF n = 0 THEN {<<>>}
    ELSE LET shorter == SeqsNoRep(S, n - 1)
             longest == {t \in shorter : Len(t) = n - 1}
         IN shorter \cup UNION {{Append(t, x) : x \in S \ Range(t)} : t \in longest}

----------------------------------------------------------------------------
(* Python values *)

NoTime == -999999      \* None given for start_time / end_time
NaT == -999998         \* pandas NaT: min()/max() of an empty DatetimeIndex
Null == "NaN"          \* a missing cell (None / NaN)
NoFrame == [cols |-> {}, rows |-> {}]   \* None of _result_set_to_df, pd.DataFrame()
NoCall == [fn |-> ""]  \* no helper is called on its own
NoResult == <<>>       \* the helper has not returned; <<v>> once it returned v

----------------------------------------------------------------------------
(* db.py: the mode reducer *)

\* the labels a categorical column takes, in their natural (sorted) order
Labels == <<"A", "B", "C">>

\* the number of cells of the series that hold v
Count(series, v) == Cardinality({i \in DOMAIN series : series[i] = v})

\* Series.mode(): the non-null values that occur most often, sorted
SeriesMode(series) ==
    LET vals == Range(series) \ {Null}
        top == {v \in vals : \A w \in vals : Count(series, w) <= Count(series, v)}
        IsTop(v) == v \in top
    IN SelectSeq(Labels, IsTop)

\* (mutant) the last of the modes is returned
_ModeReducer_last(series) ==
    IF series = <<>> THEN Null
    ELSE LET modes == SeriesMode(series)
         IN IF modes # <<>> THEN modes[Len(modes)] ELSE Null

\* _ModeReducer.__call__
_ModeReducer(series) ==
    IF series = <<>> THEN Null
    ELSE LET modes == SeriesMode(series)
         IN IF modes # <<>> THEN modes[1] ELSE Null

----------------------------------------------------------------------------
(* connection.py: the connection parameters *)

DefaultTimeout == 60   \* set_connection_params(timeout=60)

\* the module globals once the package is imported: connection._timeout after
\* the module's own set_connection_params() call (line 55), and the name
\* _timeout that `from .connection import _timeout` bound in query_base
ImportedConnection == [timeout |-> DefaultTimeout, qb_timeout |-> DefaultTimeout]

\* _timeout = max(1, int(timeout))
ClampTimeout(timeout) == IF timeout > 1 THEN timeout ELSE 1

----------------------------------------------------------------------------
(* db.py: the schema registry *)

_GROUP_BY == "_GROUP_BY"

\* dir(table) without the underscore names, i.e. sorted by name: <<column, aggfunc>>
Schema ==
    [ping   |-> << <<"Error", "sum">>, <<"Host", "mode">>, <<"Iccid", _GROUP_BY>>,
                   <<"NodeId", _GROUP_BY>>, <<"Operator", "mode">>, <<"RTT", "mean">> >>,
     gps    |-> << <<"Altitude", "mean">>, <<"Latitude", "mean">>, <<"Longitude", "mean">>,
                   <<"NodeId", _GROUP_BY>>, <<"SatelliteCount", "mean">>, <<"Speed", "mean">> >>,
     sensor |-> << <<"BootCounter", "max">>, <<"CPU_Apps", "mean">>, <<"CPU_User", "mean">>,
                   <<"CumUptime", "max">>, <<"Free", "mean">>, <<"NodeId", _GROUP_BY>>,
                   <<"Swap", "mean">>, <<"Uptime", "max">>, <<"bat_usb0", "mean">>,
                   <<"bat_usb1", "mean">>, <<"bat_usb2", "mean">> >>,
     event  |-> << <<"EventType", "mode">>, <<"Message", "mode">>, <<"NodeId", _GROUP_BY>> >>,
     modem  |-> << <<"CID", "mode">>, <<"DeviceMode", "mode">>, <<"DeviceState", "mode">>,
                   <<"ECIO", "mean">>, <<"Frequency", "mode">>, <<"IP_Address", "mode">>,
                   <<"Iccid", _GROUP_BY>>, <<"Interface", "mode">>, <<"MCC_MNC", "mode">>,
                   <<"NodeId", _GROUP_BY>>, <<"Operator", "mode">>, <<"RSRQ", "mean">>,
                   <<"RSSI", "mean">> >>]

_all_tables == <<"ping", "gps", "sensor", "event", "modem">>

_default_field ==
    [ping |-> "RTT", gps |-> "Latitude", sensor |-> "Uptime",
     event |-> "EventType", modem |-> "DeviceMode"]

\* _Table._columns
_columns(table) == [i \in DOMAIN Schema[table] |-> Schema[table][i][1]]

\* _Table._groupby
_groupby(table) ==
    LET keyed(p) == p[2] = _GROUP_BY
        ks == SelectSeq(Schema[table], keyed)
    IN [i \in DOMAIN ks |-> ks[i][1]]

\* _Table.__contains__
_contains(table, column) == column \in Range(_columns(table))

NoTable == ""

\* (mutant) every name passes for a table
_check_table_any(table) == table

\* _check_table: the registered table of that name, NoTable for the ValueError
_check_table(table) ==
    IF \E i \in DOMAIN _all_tables : _all_tables[i] = table THEN table ELSE NoTable

----------------------------------------------------------------------------
(* Texts *)

NonWord == {"(", ")", "()", " = ", " = '", "'", " OR ", " >= '", " <= '", " > "}

IsWord(piece) == piece \notin NonWord

\* re.compile(r'\w+').findall
_identifiers(condition) == SelectSeq(condition, IsWord)

\* (mutant) the last identifier of the clause instead of the first
_where_field_name_last(condition) ==
    LET ids == _identifiers(condition)
    IN IF ids = <<>> THEN <<>> ELSE <<ids[Len(ids)]>>

\* getdf._where_field_name; <<>> stands for the IndexError of [0] on no match
_where_field_name(condition) ==
    LET ids == _identifiers(condition)
    IN IF ids = <<>> THEN <<>> ELSE <<ids[1]>>

\* 'NodeId = {!r}'.format(str(node))
NodeCond(node) == <<"NodeId", " = '", node, "'">>

RECURSIVE JoinOr(_)
\* ' OR '.join(nodedid_where)
JoinOr(nodeid) ==
    IF Len(nodeid) = 1 THEN NodeCond(nodeid[1])
    ELSE NodeCond(nodeid[1]) \o <<" OR ">> \o JoinOr(Tail(nodeid))

\* (mutant) the node conditions are joined without the parentheses
NodeClause_bare(nodeid) == JoinOr(nodeid)

\* '(' + ' OR '.join(nodedid_where) + ')'
NodeClause(nodeid) == <<"(">> \o JoinOr(nodeid) \o <<")">>

\* 'time >= {!r}'.format(start_time.isoformat())
TimeGe(t) == <<"time", " >= '", ToString(t), "'">>

\* 'time <= {!r}'.format(end_time.isoformat())
TimeLe(t) == <<"time", " <= '", ToString(t), "'">>

----------------------------------------------------------------------------
(* monroe/db.py, monroe/util.py: the column check of the older package.    *)
(* A column text is [prefix, name]: the part before its last '.', if any,  *)
(* and the part after it.                                                  *)

\* __table_name__ of the tables of monroe/db.py
monroe_table_name ==
    [ping |-> "monroe_exp_ping", gps |-> "monroe_meta_device_gps"]

\* __members__: the public attributes in the order of the class body
monroe_members ==
    [ping |-> <<"NodeId", "Timestamp", "Operator", "Iccid", "Host", "Rtt">>,
     gps |-> <<"NodeId", "Timestamp", "Latitude", "Longitude", "Altitude", "Speed",
               "SatelliteCount">>]

\* _check_table of monroe/db.py: by class name or by __table_name__
monroe_check_table(table) ==
    IF table \in DOMAIN monroe_table_name THEN table
    ELSE IF \E T \in DOMAIN monroe_table_name : monroe_table_name[T] = table
         THEN CHOOSE T \in DOMAIN monroe_table_name : monroe_table_name[T] = table
         ELSE NoTable

\* str.lower() on the spellings used
Lower(text) ==
    CASE text \in {"NodeId", "nodeid", "NODEID"} -> "nodeid"
      [] text \in {"Rtt", "rtt", "RTT"} -> "rtt"
      [] text = "Timestamp" -> "timestamp"
      [] text = "Operator" -> "operator"
      [] text = "Iccid" -> "iccid"
      [] text = "Host" -> "host"
      [] text = "Latitude" -> "latitude"
      [] text = "Longitude" -> "longitude"
      [] text = "Altitude" -> "altitude"
      [] text = "Speed" -> "speed"
      [] text = "SatelliteCount" -> "satellitecount"
      [] OTHER -> text

\* aslist(sequence) of monroe/util.py, called with the positional arguments
\* given: the function has one parameter, so a call with two raises TypeError
monroe_aslist(positional) ==
    IF Len(positional) # 1
    THEN [err |-> "TypeError", value |-> <<>>]
    ELSE [err |-> "", value |-> positional[1]]

RECURSIVE Resolve(_, _, _)
\* the loop of lines 146-160 from column i on: [err, new_columns, select_all]
Resolve(members, columns, i) ==
    IF i > Len(columns) THEN [err |-> "", new_columns |-> <<>>, select_all |-> FALSE]
    ELSE IF columns[i].prefix = "" /\ columns[i].name = "*"
    THEN [err |-> "", new_columns |-> <<>>, select_all |-> TRUE]
    ELSE LET Hit(tcol) == Lower(tcol) = Lower(columns[i].name)
             hits == SelectSeq(members, Hit)
             rest == Resolve(members, columns, i + 1)
         IN IF hits = <<>>
            THEN [err |-> "ValueError", new_columns |-> <<>>, select_all |-> FALSE]
            ELSE IF rest.err # "" THEN rest
            ELSE [rest EXCEPT !.new_columns = <<hits[1]>> \o rest.new_columns]

\* _check_columns(table, columns) of monroe/db.py: [err, columns]
_check_columns(table, columns) ==
    LET T == monroe_check_table(table)
        listed == monroe_aslist(<<columns, "str">>)
        given == IF \E i \in DOMAIN listed.value :
                       listed.value[i].prefix = "" /\ listed.value[i].name = monroe_table_name[T]
                 THEN <<[prefix |-> "", name |-> "*"]>> ELSE listed.value
        r == Resolve(monroe_members[T], given, 1)
        Missing(tcol) == tcol \notin Range(r.new_columns)
    IN IF T = NoTable THEN [err |-> "ValueError", columns |-> <<>>]
       ELSE IF listed.err # "" THEN [err |-> listed.err, columns |-> <<>>]
       ELSE IF r.err # "" THEN [err |-> r.err, columns |-> <<>>]
       ELSE IF r.select_all \/ Len(given) = 0
       THEN [err |-> "", columns |-> r.new_columns \o SelectSeq(monroe_members[T], Missing)]
       ELSE [err |-> "", columns |-> r.new_columns]

----------------------------------------------------------------------------
(* query_base.py: the time / frequency resolver *)

ONE_HOUR == 3
ONE_DAY == 24 * ONE_HOUR

_ALLOWED_FREQS == <<"10ms", "1s", "1m", "30m">>

\* (mutant) the two sets of ceilings are swapped
Limits_swapped(nodeid) ==
    IF nodeid = <<>>
    THEN <<8 * ONE_HOUR, 2 * ONE_DAY, 32 * ONE_DAY>>
    ELSE <<ONE_HOUR \div 3, 1 * ONE_HOUR, 20 * ONE_HOUR>>

\* the ceilings of _check_freq, by presence of a node filter
Limits(nodeid) ==
    IF nodeid # <<>>
    THEN <<8 * ONE_HOUR, 2 * ONE_DAY, 32 * ONE_DAY>>
    ELSE <<ONE_HOUR \div 3, 1 * ONE_HOUR, 20 * ONE_HOUR>>

RECURSIVE FirstOver(_, _, _)
\* (mutant) the comparison with the ceiling is turned around
FirstOver(limits, span_secs, i) ==
    IF i > Len(limits) THEN _ALLOWED_FREQS[Len(_ALLOWED_FREQS)]
    ELSE IF span_secs > limits[i] THEN _ALLOWED_FREQS[i]
    ELSE FirstOver(limits, span_secs, i + 1)

RECURSIVE FirstUnder(_, _, _)
\* for i, max_secs in enumerate(limits): if span_secs < max_secs: ...; break
FirstUnder(limits, span_secs, i) ==
    IF i > Len(limits) THEN _ALLOWED_FREQS[Len(_ALLOWED_FREQS)]
    ELSE IF span_secs < limits[i] THEN _ALLOWED_FREQS[i]
    ELSE FirstUnder(limits, span_secs, i + 1)

\* the tier for the span, by the first ceiling above it
SpanFreq(tspan, nodeid) == FirstUnder(Limits(nodeid), tspan, 1)

\* (mutant) a valid explicit freq is replaced by the span-based one
_check_freq_span(f, tspan, nodeid) ==
    IF tspan < 0
    THEN [err |-> "InvalidTimeRange", freq |-> ""]
    ELSE IF f # "" /\ f \notin Range(_ALLOWED_FREQS)
         THEN [err |-> "InvalidFrequency", freq |-> ""]
         ELSE [err |-> "", freq |-> SpanFreq(tspan, nodeid)]

\* (mutant) the time range is checked only when freq is to be chosen
_check_freq_late(f, tspan, nodeid) ==
    IF f # ""
    THEN IF f \notin Range(_ALLOWED_FREQS)
         THEN [err |-> "InvalidFrequency", freq |-> ""]
         ELSE [err |-> "", freq |-> f]
    ELSE IF tspan < 0
         THEN [err |-> "InvalidTimeRange", freq |-> ""]
         ELSE [err |-> "", freq |-> SpanFreq(tspan, nodeid)]

\* _check_freq(freq, tspan, nodeid): [err, freq]; freq "" is None
_check_freq(f, tspan, nodeid) ==
    IF tspan < 0
    THEN [err |-> "InvalidTimeRange", freq |-> ""]
    ELSE IF f # ""
         THEN IF f \notin Range(_ALLOWED_FREQS)
              THEN [err |-> "InvalidFrequency", freq |-> ""]
              ELSE [err |-> "", freq |-> f]
         ELSE [err |-> "", freq |-> SpanFreq(tspan, nodeid)]

\* a < b and a > b on pandas timestamps: every comparison with NaT is False
TsLess(a, b) == a # NaT /\ b # NaT /\ a < b
TsGreater(a, b) == a # NaT /\ b # NaT /\ a > b

RECURSIVE PyMax(_, _)
\* max(iterable), seeded with its first element
PyMax(cur, rest) ==
    IF rest = <<>> THEN cur
    ELSE PyMax(IF TsGreater(rest[1], cur) THEN rest[1] ELSE cur, Tail(rest))

RECURSIVE PyMin(_, _)
\* min(iterable), seeded with its first element
PyMin(cur, rest) ==
    IF rest = <<>> THEN cur
    ELSE PyMin(IF TsLess(rest[1], cur) THEN rest[1] ELSE cur, Tail(rest))

\* pd.Timestamp.fromordinal(t.toordinal() - 14): midnight of the day 14 days earlier
FromOrdinalMinus14(t) == (t \div ONE_DAY) * ONE_DAY - 14 * ONE_DAY

\* _check_time(start_time, end_time, tables) given the tables' time ranges
\* (the values of table_timerange); end_is_str: end_time was passed as a str
_check_time(start, end, end_is_str, ranges, tnow) ==
    LET maxes == [i \in DOMAIN ranges |-> ranges[i][2]]
        mins == [i \in DOMAIN ranges |-> ranges[i][1]]
        max_time == PyMax(maxes[1], Tail(maxes))
        min_time == PyMin(mins[1], Tail(mins))
        e == IF end = NoTime
             THEN (IF TsLess(max_time, tnow) THEN max_time ELSE tnow)
             ELSE end
        floor == FromOrdinalMinus14(e)
        s == IF start = NoTime
             THEN (IF TsGreater(min_time, floor) THEN min_time ELSE floor)
             ELSE start
    IN IF start = NoTime /\ end # NoTime /\ end_is_str
       THEN [err |-> "AttributeError", start_time |-> NoTime, end_time |-> NoTime]
       ELSE [err |-> "", start_time |-> s, end_time |-> e]

----------------------------------------------------------------------------
(* query_base.py: the query builder *)

DefaultLimit == 100000

\* _Table._select_agg: 'aggfunc(col) as col' for every column that is not a
\* grouping key, as <<aggfunc, col>>
_select_agg(table) ==
    SelectSeq([i \in DOMAIN Schema[table] |-> <<Schema[table][i][2], Schema[table][i][1]>>],
              LAMBDA e : e[1] # _GROUP_BY)

\* _query_str: the parts of the query text. columns <<>> is '' ; select is
\* what follows SELECT: the columns given, else table._select_agg() if
\* resample is given, else '*'; where <<>> gives no WHERE part; bucket is
\* the 'time(..), ' prefix of GROUP BY
_query_str(table, f, columns, conds, resample, limit) ==
    [table   |-> table,
     freq    |-> f,
     columns |-> columns,
     select  |-> IF columns # <<>> THEN columns
                 ELSE IF resample # "" THEN _select_agg(table)
                 ELSE <<"*">>,
     where   |-> conds,
     bucket  |-> resample,
     groupby |-> _groupby(table),
     limit   |-> limit]

\* getdf._query_for_table
_query_for_table(table, conds, f, limit, columns) ==
    LET table_columns == {"time"} \cup Range(_columns(table))
        applies(cond) == _where_field_name(cond)[1] \in table_columns
    IN _query_str(table, f, columns, SelectSeq(conds, applies), "", limit)

\* (mutant) any('Iccid' in table for table in tables)
NeedsModem_iccid(tbls) == \E i \in DOMAIN tbls : _contains(tbls[i], "Iccid")

\* db.modem not in tables and any('Iccid' in table for table in tables)
NeedsModem(tbls) ==
    /\ "modem" \notin Range(tbls)
    /\ \E i \in DOMAIN tbls : _contains(tbls[i], "Iccid")

\* the queries getdf builds, lines 193-199
BuildQueryList(tbls, conds, f, limit) ==
    LET qs == [i \in DOMAIN tbls |-> _query_for_table(tbls[i], conds, f, limit, <<>>)]
    IN IF NeedsModem(tbls)
       THEN Append(qs, _query_for_table("modem", conds, f, limit, <<"Interface", "Iccid">>))
       ELSE qs

----------------------------------------------------------------------------
(* The store: what a query is answered with. A result set is a set of      *)
(* groups [tags, rows]; the rows lie at the end of the queried window      *)
(* [start, end]: at t1 = end and at t0, the tick before it if the window    *)
(* has one.                                                                *)

\* onesim: ping and modem report the same SIM and operator; twosim: they report
\* two SIMs of the node; roaming: the same SIM under two operator names;
\* hour: three ping rows of one SIM within one hour, a modem row with each;
\* hourmixed: the same, the third ping row under another operator; hourgap:
\* the same as hour, a modem row with the first ping row only; hourlate: with
\* the last ping row only; twohours: two SIMs, each with a row in two
\* different hours
Stores == {"onesim", "twosim", "roaming", "hour", "hourmixed", "hourgap", "hourlate",
           "twohours", "empty"}

\* the stores with rows at the last two ticks of the window
TwoTickStores == {"onesim", "twosim", "roaming"}

\* the stores with rows at the last three ticks of the window
HourStores == {"hour", "hourmixed", "hourgap", "hourlate"}

StoreGroups(variant, table, start, end) ==
    LET t1 == end
        t0 == IF start < end THEN end - 1 ELSE end
        t2 == IF start <= end - 2 THEN end - 2 ELSE t0
        t3 == IF start <= end - 3 THEN end - 3 ELSE t2
    IN
    IF variant = "empty" THEN {}
    ELSE IF variant \in TwoTickStores
    THEN CASE table = "ping" ->
                {[tags |-> [NodeId |-> "109", Iccid |-> "i1"],
                  rows |-> {[time |-> t0, RTT |-> "10", Operator |-> "A"],
                            [time |-> t1, RTT |-> "20", Operator |-> "A"]}]}
           [] table = "gps" ->
                {[tags |-> [NodeId |-> "109"],
                  rows |-> {[time |-> t0, Latitude |-> "46"]}]}
           [] table = "modem" ->
                {[tags |-> [NodeId |-> "109",
                            Iccid |-> IF variant = "twosim" THEN "i2" ELSE "i1"],
                  rows |-> {[time |-> t0, Interface |-> "usb0",
                             Operator |-> IF variant = "onesim" THEN "A" ELSE "B"]}]}
           [] table = "sensor" ->
                {[tags |-> [NodeId |-> "109"],
                  rows |-> {[time |-> t1, Uptime |-> "7"]}]}
           [] OTHER ->
                {[tags |-> [NodeId |-> "109"],
                  rows |-> {[time |-> t1, EventType |-> "boot"]}]}
    ELSE IF variant \in HourStores
    THEN CASE table = "ping" ->
                {[tags |-> [NodeId |-> "109", Iccid |-> "i1"],
                  rows |-> {[time |-> t2, RTT |-> "6", Operator |-> "A"],
                            [time |-> t0, RTT |-> "12", Operator |-> "A"],
                            [time |-> t1, RTT |-> "24",
                             Operator |-> IF variant = "hourmixed" THEN "B" ELSE "A"]}]}
           [] table = "modem" ->
                {[tags |-> [NodeId |-> "109", Iccid |-> "i1"],
                  rows |-> {[time |-> t, Interface |-> "usb0", Operator |-> "A"] :
                               t \in IF variant = "hourgap" THEN {t2}
                                    ELSE IF variant = "hourlate" THEN {t1}
                                    ELSE {t2, t0, t1}}]}
           [] table = "gps" ->
                {[tags |-> [NodeId |-> "109"],
                  rows |-> {[time |-> t2, Latitude |-> "46"],
                            [time |-> t1, Latitude |-> "48"]}]}
           [] OTHER -> {}
    ELSE CASE table = "ping" ->
                {[tags |-> [NodeId |-> "109", Iccid |-> "i1"],
                  rows |-> {[time |-> t3, RTT |-> "6", Operator |-> "A"],
                            [time |-> t1, RTT |-> "12", Operator |-> "A"]}],
                 [tags |-> [NodeId |-> "109", Iccid |-> "i2"],
                  rows |-> {[time |-> t3, RTT |-> "24", Operator |-> "B"],
                            [time |-> t1, RTT |-> "36", Operator |-> Null]}]}
           [] table = "modem" ->
                {[tags |-> [NodeId |-> "109", Iccid |-> "i1"],
                  rows |-> {[time |-> t3, Interface |-> "usb0", Operator |-> "A"],
                            [time |-> t1, Interface |-> "usb0", Operator |-> "A"]}],
                 [tags |-> [NodeId |-> "109", Iccid |-> "i2"],
                  rows |-> {[time |-> t3, Interface |-> "usb1", Operator |-> "B"],
                            [time |-> t1, Interface |-> "usb1", Operator |-> "B"]}]}
           [] table = "gps" ->
                {[tags |-> [NodeId |-> "109"],
                  rows |-> {[time |-> t3, Latitude |-> "46"]}]}
           [] OTHER -> {}

\* SELECT columns: '*' keeps every field, a column list keeps time and those fields
Select(row, columns) ==
    IF columns = <<>> THEN row
    ELSE [c \in DOMAIN row \cap ({"time"} \cup Range(columns)) |-> row[c]]

\* the ResultSet the store answers query q with
Response(variant, q, start, end) ==
    {[tags |-> g.tags, rows |-> {Select(r, q.columns) : r \in g.rows}] :
        g \in StoreGroups(variant, q.table, start, end)}

----------------------------------------------------------------------------
(* query_base.py: the result merger *)

\* pd.concat(dfs, ignore_index=True): the union of the columns, missing cells null
Concat(frames) ==
    LET cols == UNION {f.cols : f \in frames}
        Pad(f, r) == [c \in cols |-> IF c \in f.cols THEN r[c] ELSE Null]
    IN [cols |-> cols, rows |-> UNION {{Pad(f, r) : r \in f.rows} : f \in frames}]

\* modem.__transform__ on one cell; the other tables keep _Table.__transform__
Transform(table, column, value) ==
    IF table = "modem" /\ column = "DeviceMode"
    THEN CASE value = "1" -> "unknown" [] value = "2" -> "disconnected"
           [] value = "3" -> "no_service" [] value = "4" -> "2G"
           [] value = "5" -> "3G" [] value = "6" -> "LTE" [] OTHER -> value
    ELSE IF table = "modem" /\ column = "DeviceState"
    THEN CASE value = "0" -> "unknown" [] value = "1" -> "registered"
           [] value = "2" -> "unregistered" [] value = "3" -> "connected"
           [] value = "4" -> "disconnected" [] OTHER -> value
    ELSE value

\* the frame of one (measurement, tags) group: the rows, the tags as columns
\* (df[tag] = value), then the table's __transform__
GroupFrame(table, g) ==
    LET fields == UNION {DOMAIN r : r \in g.rows}
        cols == fields \cup DOMAIN g.tags
    IN [cols |-> cols,
        rows |-> {[c \in cols |-> IF c \in DOMAIN g.tags THEN g.tags[c]
                                  ELSE Transform(table, c, r[c])] : r \in g.rows}]

\* _result_set_to_df: NoFrame for None
_result_set_to_df(table, result_set) ==
    IF result_set = {} THEN NoFrame
    ELSE Concat({GroupFrame(table, g) : g \in result_set})

\* (mutant) the join is on time, NodeId and Iccid only; another column the two
\* frames share keeps the left frame's value
Merge_on_keys(left, right) ==
    LET on == left.cols \cap right.cols \cap {"time", "NodeId", "Iccid"}
        cols == left.cols \cup right.cols
        Match(a, b) == \A c \in on : a[c] = b[c]
        Both(a, b) == [c \in cols |-> IF c \in left.cols THEN a[c] ELSE b[c]]
        OnlyLeft(a) == [c \in cols |-> IF c \in left.cols THEN a[c] ELSE Null]
        OnlyRight(b) == [c \in cols |-> IF c \in right.cols THEN b[c] ELSE Null]
    IN [cols |-> cols,
        rows |-> UNION {{Both(a, b) : b \in {x \in right.rows : Match(a, x)}} : a \in left.rows}
                 \cup {OnlyLeft(a) : a \in {x \in left.rows : \A b \in right.rows : ~Match(x, b)}}
                 \cup {OnlyRight(b) : b \in {x \in right.rows : \A a \in left.rows : ~Match(a, x)}}]

\* pd.merge(left, right, how='outer'): outer join on the columns in common
\* (null keys match null keys)
Merge(left, right) ==
    LET on == left.cols \cap right.cols
        cols == left.cols \cup right.cols
        Match(a, b) == \A c \in on : a[c] = b[c]
        Both(a, b) == [c \in cols |-> IF c \in left.cols THEN a[c] ELSE b[c]]
        OnlyLeft(a) == [c \in cols |-> IF c \in left.cols THEN a[c] ELSE Null]
        OnlyRight(b) == [c \in cols |-> IF c \in right.cols THEN b[c] ELSE Null]
    IN [cols |-> cols,
        rows |-> UNION {{Both(a, b) : b \in {x \in right.rows : Match(a, x)}} : a \in left.rows}
                 \cup {OnlyLeft(a) : a \in {x \in left.rows : \A b \in right.rows : ~Match(x, b)}}
                 \cup {OnlyRight(b) : b \in {x \in right.rows : \A a \in left.rows : ~Match(a, x)}}]

RECURSIVE Reduce(_, _)
\* reduce(partial(pd.merge, how='outer'), dfs), from the accumulated frame
Reduce(acc, frames) ==
    IF frames = <<>> THEN acc ELSE Reduce(Merge(acc, frames[1]), Tail(frames))

\* the table getdf returns for the frames dfs (lines 208-230)
MergeAll(frames) ==
    IF frames = <<>> THEN NoFrame ELSE Reduce(frames[1], Tail(frames))

----------------------------------------------------------------------------
(* db.py: AGGREGATE; query_base.py: the time index, the resampler.         *)
(* A table indexed by time is a record [cols, rows] whose rows form a      *)
(* sequence, the order of the rows in the table. Numeric cells are texts   *)
(* of natural numbers; a quotient is rounded down.                         *)

MaxNum == 120

\* the number a numeric cell holds, the cell for a number
Num(cell) == CHOOSE n \in 0..MaxNum : ToString(n) = cell
Str(n) == ToString(n)

\* the <<field, func>> pairs of all tables
Fields == UNION {Range(Schema[t]) : t \in DOMAIN Schema}

\* AGGREGATE[field]: MODE for 'mode' and _GROUP_BY, else the function's name
AGGREGATE(field) ==
    LET func == (CHOOSE e \in Fields : e[1] = field)[2]
    IN IF func \in {"mode", _GROUP_BY} THEN "MODE" ELSE func

\* _CATEGORICAL_COLUMNS
_CATEGORICAL_COLUMNS == {e[1] : e \in {x \in Fields : AGGREGATE(x[1]) = "MODE"}}

\* the fields AGGREGATE[...] is applied to: in AGGREGATE and not categorical
NumericFields == {e[1] : e \in Fields} \ _CATEGORICAL_COLUMNS

RECURSIVE Enumerate(_)
\* the rows of a frame one after the other
Enumerate(S) ==
    IF S = {} THEN <<>>
    ELSE LET r == CHOOSE x \in S : TRUE IN <<r>> \o Enumerate(S \ {r})

RECURSIVE InsertByTime(_, _)
\* row put behind the rows of the sorted sequence that are not later than it
InsertByTime(sorted, row) ==
    IF sorted = <<>> THEN <<row>>
    ELSE IF sorted[Len(sorted)].time <= row.time THEN Append(sorted, row)
    ELSE Append(InsertByTime(SubSeq(sorted, 1, Len(sorted) - 1), row), sorted[Len(sorted)])

RECURSIVE SortFrom(_, _)
SortFrom(sorted, rows) ==
    IF rows = <<>> THEN sorted ELSE SortFrom(InsertByTime(sorted, rows[1]), Tail(rows))

\* (mutant) the rows are left in the order they are in
sort_index_not(rows) == rows

\* df.sort_index(): the rows in ascending order of the time index
sort_index(rows) == SortFrom(<<>>, rows)

\* the resample rule as a number of ticks
RuleTicks(rule) ==
    CASE rule = "20min" -> ONE_HOUR \div 3
      [] rule = "1h" -> ONE_HOUR
      [] rule = "1d" -> ONE_DAY

\* (mutant) a bucket is labelled by its end
Bucket_end(t, rule) == (t \div RuleTicks(rule)) * RuleTicks(rule) + RuleTicks(rule)

\* the label of the bucket t falls in: the start of the bucket
Bucket(t, rule) == (t \div RuleTicks(rule)) * RuleTicks(rule)

RECURSIVE SumCells(_, _)
\* the sum of column c over a set of rows with non-null c
SumCells(rows, c) ==
    IF rows = {} THEN 0
    ELSE LET r == CHOOSE x \in rows : TRUE IN Num(r[c]) + SumCells(rows \ {r}, c)

\* (mutant) every column is summed up
Aggregate_sum(func, rows, c) ==
    LET valid == {r \in rows : r[c] # Null}
    IN IF valid = {} THEN Null ELSE Str(SumCells(valid, c))

\* the resampler's aggregation of column c over the rows of a bucket by the
\* function named func; null cells are skipped, an empty bucket gives NaN
Aggregate(func, rows, c) ==
    LET valid == {r \in rows : r[c] # Null}
    IN IF valid = {} THEN Null
       ELSE CASE func = "mean" -> Str(SumCells(valid, c) \div Cardinality(valid))
              [] func = "sum" -> Str(SumCells(valid, c))
              [] func = "max" -> Str(CHOOSE m \in {Num(r[c]) : r \in valid} :
                                         \A r \in valid : Num(r[c]) <= m)

RECURSIVE Distinct(_)
\* the elements of a sequence in the order of their first occurrence
Distinct(s) ==
    IF s = <<>> THEN <<>>
    ELSE LET init == Distinct(SubSeq(s, 1, Len(s) - 1))
         IN IF s[Len(s)] \in Range(init) THEN init ELSE Append(init, s[Len(s)])

RECURSIVE Flatten(_)
Flatten(seqs) == IF seqs = <<>> THEN <<>> ELSE seqs[1] \o Flatten(Tail(seqs))

\* _resample(df, rule), df indexed by time
_resample(frame, rule) ==
    LET columns == frame.cols \ {"time"}
        by == columns \cap _CATEGORICAL_COLUMNS
        have_numeric_cols == Cardinality(by) # Cardinality(columns)
        agg == IF have_numeric_cols THEN columns \cap NumericFields ELSE {}
        cols == {"time"} \cup by \cup agg
        Keyed(r) == \A c \in by : r[c] # Null
        kept == SelectSeq(frame.rows, Keyed)
        KeyOf(r) == [c \in by |-> r[c]]
        keys == Distinct([i \in DOMAIN kept |-> KeyOf(kept[i])])
        Group(k) == {r \in Range(kept) : KeyOf(r) = k}
        Lo(k) == CHOOSE b \in {Bucket(r.time, rule) : r \in Group(k)} :
                     \A r \in Group(k) : b <= Bucket(r.time, rule)
        Hi(k) == CHOOSE b \in {Bucket(r.time, rule) : r \in Group(k)} :
                     \A r \in Group(k) : Bucket(r.time, rule) <= b
        Row(k, b) == [c \in cols |->
                        IF c = "time" THEN b
                        ELSE IF c \in by THEN k[c]
                        ELSE Aggregate(AGGREGATE(c),
                                       {r \in Group(k) : Bucket(r.time, rule) = b}, c)]
        Resampled(k) == [n \in 1..((Hi(k) - Lo(k)) \div RuleTicks(rule) + 1) |->
                            Row(k, Lo(k) + (n - 1) * RuleTicks(rule))]
    IN [cols |-> cols,
        rows |-> sort_index(Flatten([i \in DOMAIN keys |-> Resampled(keys[i])]))]

----------------------------------------------------------------------------
(* query_base.py: the interpolator *)

\* (mutant) the table is grouped by NodeId only
_get_grouped_node(cols, by) == cols \cap {"NodeId"}

\* _get_grouped(df, by): the columns of by that the table has are the
\* columns it is grouped by
_get_grouped(cols, by) == cols \cap by

\* (mutant) no column is taken for numeric
is_numeric_dtype_never(c) == FALSE

\* is_numeric_dtype(series) for the column c: the label (categorical)
\* columns and the time column are not numeric
is_numeric_dtype(c) == c \in NumericFields

\* (mutant) the rows of the table are handed back as they were
Interpolated_not(rows, filled) == rows

\* (mutant) the interpolated rows are added to the rows of the table
Interpolated_added(rows, filled) == rows \o filled

\* the rows of the table after the grouped interpolation: the interpolated
\* rows take the place of the rows
Interpolated(rows, filled) == filled

\* _interpolate(df, method), df indexed by time and holding NodeId or Iccid.
\* A row with a null NodeId or Iccid belongs to no group: it comes back from
\* the grouped apply as an all-null row and dropna(how='all') drops it.
_interpolate(frame, method) ==
    LET m == IF method = "True" THEN "linear" ELSE method
        rows == frame.rows
        by == _get_grouped(frame.cols, {"NodeId", "Iccid"})
        Keyed(i) == \A c \in by : rows[i][c] # Null
        Same(i, j) == Keyed(i) /\ Keyed(j) /\ \A c \in by : rows[i][c] = rows[j][c]
        Pos(i) == Cardinality({j \in 1..i : Same(i, j)})
        Before(i, c) == {j \in 1..(i - 1) : Same(i, j) /\ rows[j][c] # Null}
        After(i, c) == {j \in (i + 1)..Len(rows) : Same(i, j) /\ rows[j][c] # Null}
        Last(S) == CHOOSE j \in S : \A k \in S : k <= j
        First(S) == CHOOSE j \in S : \A k \in S : j <= k
        ffill(i, c) == IF Before(i, c) = {} THEN Null ELSE rows[Last(Before(i, c))][c]
        bfill(i, c) == IF After(i, c) = {} THEN Null ELSE rows[First(After(i, c))][c]
        linear(i, c) ==
            IF Before(i, c) = {} THEN bfill(i, c)
            ELSE IF After(i, c) = {} THEN ffill(i, c)
            ELSE LET a == Last(Before(i, c))
                     b == First(After(i, c))
                     p == Num(rows[a][c])
                     q == Num(rows[b][c])
                 IN Str(p + ((q - p) * (Pos(i) - Pos(a))) \div (Pos(b) - Pos(a)))
        _interpolator(i, c) ==
            IF c = "time" THEN rows[i][c]
            ELSE IF rows[i][c] # Null THEN rows[i][c]
            ELSE IF m = "ffill" THEN ffill(i, c)
            ELSE IF m = "bfill" THEN bfill(i, c)
            ELSE IF is_numeric_dtype(c) THEN linear(i, c)
            ELSE ffill(i, c)
        grouped == SelectSeq([i \in DOMAIN rows |-> i], Keyed)
        filled == [n \in DOMAIN grouped |->
                      [c \in frame.cols |-> _interpolator(grouped[n], c)]]
    IN [cols |-> frame.cols, rows |-> sort_index(Interpolated(rows, filled))]

\* what getdf makes of the frames dfs (lines 208-238): merged, indexed by
\* time and sorted, resampled if asked and not empty, interpolated if asked
Pipeline(frames, resample, interpolate) ==
    IF frames = <<>> THEN [cols |-> {}, rows |-> <<>>]
    ELSE LET merged == MergeAll(frames)
             indexed == [cols |-> merged.cols, rows |-> sort_index(Enumerate(merged.rows))]
             resampled == IF resample # "" /\ indexed.rows # <<>>
                          THEN _resample(indexed, resample) ELSE indexed
         IN IF interpolate # "False" THEN _interpolate(resampled, interpolate)
            ELSE resampled

----------------------------------------------------------------------------
(* queries.py, connection.py: the memoized lookups and                     *)
(* set_connection_params. The connection parameters are numbered by the    *)
(* set_connection_params call that set them (0: the call made at import);  *)
(* what a lookup fetched is identified by the parameters of the client it  *)
(* was fetched through. An lru_cache is the sequence of its entries        *)
(* [key, value], the least recently used first.                            *)

MaxParams == 2     \* set_connection_params calls made after the import
NoClient == -1     \* _client = None

\* the memoized lookups, in the order clear_caches clears them: one without
\* arguments (nodes_for_table, all_nodes, all_tables), one with arguments
\* (table_timerange, tables_for_node, distinct_values)
Memoized == <<"nodes_for_table", "table_timerange">>

\* the maxsize of the lookup's cache: @lru_cache(1), @lru_cache()
maxsize(f) == IF f = "nodes_for_table" THEN 1 ELSE 128

\* the variables of a getdf or helper call
call == <<args, now, store, tranges, cache, pc, err, tables, where, start_time,
          end_time, freq, queries, sent, fstate, yielded, gen, dfs, ncallback, df,
          returned, conn, timer, fn_in, fn_out>>

\* no lookup is being made
NoLookup ==
    [pc |-> "idle", f |-> "", key |-> 0, began |-> -1, value |-> -1, hit |-> FALSE, node |-> 1]

\* the modules are imported: set_connection_params() has run with its
\* defaults, nothing is memoized, no client is made yet
Imported ==
    /\ params = 0
    /\ _client = NoClient
    /\ lru = [f \in Range(Memoized) |-> <<>>]
    /\ thr = NoLookup
    /\ setter = [pc |-> "idle", i |-> 0]
    /\ used = [f \in Range(Memoized) |-> <<>>]

\* the keys a cache holds
CachedKeys(entries) == {entries[i].key : i \in DOMAIN entries}

\* the entries (keys) but the one of key k
Without(entries, k) == SelectSeq(entries, LAMBDA e : e.key # k)
KeysWithout(keys, k) == SelectSeq(keys, LAMBDA x : x # k)

\* (mutant) a full cache keeps all its entries
Evicted_none(entries, size) == entries

\* a full cache drops its least recently used entry for a new one
Evicted(entries, size) == IF Len(entries) >= size THEN Tail(entries) ELSE entries

\* the lru_cache wrapper of lookup f is called with arguments k: a hit is
\* made the most recent entry and returned, a miss goes on to call f
Call(f, k) ==
    /\ thr.pc \in {"idle", "returned", "raised"}
    /\ LET began == IF setter.pc = "idle" THEN params ELSE -1
           node == IF f = "table_timerange" THEN k ELSE thr.node
       IN IF k \in CachedKeys(lru[f])
          THEN LET e == CHOOSE e \in Range(lru[f]) : e.key = k
               IN /\ lru' = [lru EXCEPT ![f] = Append(Without(lru[f], k), e)]
                  /\ used' = [used EXCEPT ![f] = Append(KeysWithout(used[f], k), k)]
                  /\ thr' = [pc |-> "returned", f |-> f, key |-> k, began |-> began,
                             value |-> e.value, hit |-> TRUE, node |-> node]
          ELSE /\ thr' = [pc |-> "miss", f |-> f, key |-> k, began |-> began,
                          value |-> -1, hit |-> FALSE, node |-> node]
               /\ UNCHANGED <<lru, used>>
    /\ UNCHANGED <<params, _client, setter, call>>

\* the body of the lookup: query() takes the client (get_client makes one
\* from the module globals if there is none) and queries the store, which
\* answers or fails
Query(ok) ==
    /\ thr.pc = "miss"
    /\ LET client == IF _client = NoClient THEN params ELSE _client
       IN /\ _client' = client
          /\ thr' = IF ok THEN [thr EXCEPT !.pc = "fetched", !.value = client]
                    ELSE [thr EXCEPT !.pc = "raised"]
    /\ UNCHANGED <<params, lru, setter, used, call>>

\* the wrapper stores what the lookup returned and returns it
Insert ==
    /\ thr.pc = "fetched"
    /\ lru' = [lru EXCEPT ![thr.f] = Append(Evicted(lru[thr.f], maxsize(thr.f)),
                                            [key |-> thr.key, value |-> thr.value])]
    /\ used' = [used EXCEPT ![thr.f] = Append(KeysWithout(used[thr.f], thr.key), thr.key)]
    /\ thr' = [thr EXCEPT !.pc = "returned"]
    /\ UNCHANGED <<params, _client, setter, call>>

\* set_connection_params, lines 17-24: the globals are rebound
SetGlobals ==
    /\ setter.pc = "idle"
    /\ params < MaxParams
    /\ params' = params + 1
    /\ setter' = [pc |-> "reset", i |-> 0]
    /\ UNCHANGED <<_client, lru, thr, used, call>>

\* lines 26-27: _client = None
ResetClient ==
    /\ setter.pc = "reset"
    /\ _client' = NoClient
    /\ setter' = [pc |-> "clear", i |-> 1]
    /\ UNCHANGED <<params, lru, thr, used, call>>

\* clear_caches: cache_clear() of the next lookup; after the last one
\* set_connection_params returns
CacheClear ==
    /\ setter.pc = "clear"
    /\ lru' = [lru EXCEPT ![Memoized[setter.i]] = <<>>]
    /\ used' = [used EXCEPT ![Memoized[setter.i]] = <<>>]
    /\ setter' = IF setter.i = Len(Memoized) THEN [pc |-> "idle", i |-> 0]
                 ELSE [pc |-> "clear", i |-> setter.i + 1]
    /\ UNCHANGED <<params, _client, thr, call>>

----------------------------------------------------------------------------
(* getdf: the call, step by step *)

memo == <<params, _client, lru, thr, setter, used>>
inputs == <<args, now, store, tranges, conn, fn_in, fn_out, memo>>
batch == <<fstate, yielded, gen, dfs, ncallback, timer>>

\* raise: the exception leaves getdf
Raise(e) == pc' = "raised" /\ err' = e

\* the state a getdf call starts in, its inputs drawn from the given sets
InitWith(TablesArgs, NodeArgs, WhereArgs, StartArgs, EndArgs, StrArgs, FreqArgs, ResampleArgs, InterpolateArgs, Nows, Ranges, StoreArgs) ==
    /\ args \in [tables: TablesArgs, nodeid: NodeArgs, where: WhereArgs,
                 start_time: StartArgs, end_time: EndArgs, end_is_str: StrArgs,
                 freq: FreqArgs, resample: ResampleArgs, interpolate: InterpolateArgs,
                 limit: {DefaultLimit}, callback: {TRUE}]
    /\ args.end_is_str => args.end_time # NoTime
    /\ now \in Nows
    /\ store \in StoreArgs
    /\ tranges \in Ranges
    /\ cache = {}
    /\ pc = "check_table"
    /\ err = ""
    /\ tables = <<>>
    /\ where = <<>>
    /\ start_time = NoTime
    /\ end_time = NoTime
    /\ freq = ""
    /\ queries = <<>>
    /\ sent = {}
    /\ fstate = <<>>
    /\ yielded = <<>>
    /\ gen = "idle"
    /\ dfs = <<>>
    /\ ncallback = 0
    /\ df = NoFrame
    /\ returned = <<>>
    /\ conn = ImportedConnection
    /\ timer = 0
    /\ Imported
    /\ fn_in = NoCall
    /\ fn_out = NoResult

\* lines 161-173: check the tables, collect the clauses, add the node clause
CheckTables ==
    /\ pc = "check_table"
    /\ LET checked == [i \in DOMAIN args.tables |-> _check_table(args.tables[i])]
       IN IF NoTable \in Range(checked)
          THEN Raise("UnknownTable") /\ UNCHANGED <<tables, where>>
          ELSE IF checked = <<>>
          THEN Raise("NeedTable") /\ UNCHANGED <<tables, where>>
          ELSE /\ tables' = checked
               /\ where' = IF args.nodeid # <<>>
                           THEN Append(args.where, NodeClause(args.nodeid))
                           ELSE args.where
               /\ pc' = "check_time"
               /\ err' = err
    /\ UNCHANGED <<inputs, cache, start_time, end_time, freq, queries, sent, batch, df, returned>>

\* lines 176-178: _check_time, with the table_timerange probes it makes when a
\* bound is missing (one per table not memoized; the k-th of them may fail),
\* then the two time clauses
CheckTime ==
    /\ pc = "check_time"
    /\ LET need == args.start_time = NoTime \/ args.end_time = NoTime
           uncached(t) == t \notin cache
           miss == IF need THEN SelectSeq(tables, uncached) ELSE <<>>
       IN \E k \in 0..Len(miss) :
            LET asked == IF k = 0 THEN Range(miss) ELSE {miss[i] : i \in 1..k}
                answered == IF k = 0 THEN Range(miss) ELSE {miss[i] : i \in 1..(k - 1)}
                ranges == [i \in DOMAIN tables |-> tranges[tables[i]]]
                r == _check_time(args.start_time, args.end_time, args.end_is_str, ranges, now)
            IN /\ sent' = sent \cup {<<"probe", t>> : t \in asked}
               /\ cache' = cache \cup answered
               /\ IF k > 0
                  THEN Raise("StoreError") /\ UNCHANGED <<start_time, end_time, where>>
                  ELSE IF r.err # ""
                  THEN Raise(r.err) /\ UNCHANGED <<start_time, end_time, where>>
                  ELSE /\ start_time' = r.start_time
                       /\ end_time' = r.end_time
                       /\ where' = where \o <<TimeGe(r.start_time), TimeLe(r.end_time)>>
                       /\ pc' = "check_freq"
                       /\ err' = err
    /\ UNCHANGED <<inputs, tables, freq, queries, batch, df, returned>>

\* line 181: _check_freq
CheckFreq ==
    /\ pc = "check_freq"
    /\ LET r == _check_freq(args.freq, end_time - start_time, args.nodeid)
       IN IF r.err # ""
          THEN Raise(r.err) /\ freq' = freq
          ELSE freq' = r.freq /\ pc' = "submit" /\ err' = err
    /\ UNCHANGED <<inputs, cache, tables, where, start_time, end_time, queries, sent, batch, df, returned>>

\* lines 183-199 and query_async up to the submits: build the queries (the
\* IndexError of _where_field_name on a clause without identifier), start one
\* worker per query and as_completed with timeout=_timeout + 1, _timeout being
\* the name query_base imported
SubmitQueries ==
    /\ pc = "submit"
    /\ IF \E i \in DOMAIN where : _where_field_name(where[i]) = <<>>
       THEN Raise("IndexError") /\ UNCHANGED <<queries, sent, fstate, gen, timer>>
       ELSE LET qs == BuildQueryList(tables, where, freq, args.limit)
            IN /\ queries' = qs
               /\ sent' = sent \cup {<<"data", qs[i].table>> : i \in DOMAIN qs}
               /\ fstate' = [i \in DOMAIN qs |-> "pending"]
               /\ gen' = "waiting"
               /\ timer' = conn.qb_timeout + 1
               /\ pc' = "gather"
               /\ err' = err
    /\ UNCHANGED <<inputs, cache, tables, where, start_time, end_time, freq,
                   yielded, dfs, ncallback, df, returned>>

\* query(): a worker's client.query returns, or raises
WorkerFinish(i, ok) ==
    /\ pc \in {"gather", "unwind"}
    /\ i \in DOMAIN fstate
    /\ fstate[i] = "pending"
    /\ fstate' = [fstate EXCEPT ![i] = IF ok THEN "ok" ELSE "failed"]
    /\ UNCHANGED <<inputs, cache, pc, err, tables, where, start_time, end_time, freq,
                   queries, sent, yielded, gen, dfs, ncallback, df, returned, timer>>

\* (mutant) a failed future is passed over instead of raising
YieldFuture_skip(i) ==
    /\ pc = "gather"
    /\ gen = "waiting"
    /\ i \in DOMAIN fstate
    /\ i \notin Range(yielded)
    /\ fstate[i] # "pending"
    /\ yielded' = Append(yielded, i)
    /\ dfs' = IF fstate[i] = "ok"
              THEN Append(dfs, _result_set_to_df(queries[i].table,
                                   Response(store, queries[i], start_time, end_time)))
              ELSE dfs
    /\ gen' = "suspended"
    /\ UNCHANGED <<inputs, cache, pc, err, tables, where, start_time, end_time, freq,
                   queries, sent, fstate, ncallback, df, returned, timer>>

\* as_completed hands over a finished future: `yield future.result()` and
\* getdf's loop body for it (lines 203-206), or future.result() raises
YieldFuture(i) ==
    /\ pc = "gather"
    /\ gen = "waiting"
    /\ i \in DOMAIN fstate
    /\ i \notin Range(yielded)
    /\ fstate[i] # "pending"
    /\ IF fstate[i] = "ok"
       THEN LET d == _result_set_to_df(queries[i].table,
                                       Response(store, queries[i], start_time, end_time))
            IN /\ yielded' = Append(yielded, i)
               /\ dfs' = IF d.cols = {} THEN dfs ELSE Append(dfs, d)
               /\ gen' = "suspended"
               /\ UNCHANGED <<pc, err>>
       ELSE /\ err' = "StoreError"
            /\ pc' = "unwind"
            /\ UNCHANGED <<yielded, dfs, gen>>
    /\ UNCHANGED <<inputs, cache, tables, where, start_time, end_time, freq,
                   queries, sent, fstate, ncallback, df, returned, timer>>

\* (mutant) the generator resumes without calling the callback
Resume_skip ==
    /\ pc = "gather"
    /\ gen = "suspended"
    /\ gen' = "waiting"
    /\ UNCHANGED <<inputs, cache, pc, err, tables, where, start_time, end_time, freq,
                   queries, sent, fstate, yielded, dfs, df, returned, timer,
                   ncallback>>

\* getdf asks for the next result: the generator resumes after the yield and
\* calls the callback (lines 87-88)
Resume ==
    /\ pc = "gather"
    /\ gen = "suspended"
    /\ ncallback' = IF args.callback THEN ncallback + 1 ELSE ncallback
    /\ gen' = "waiting"
    /\ UNCHANGED <<inputs, cache, pc, err, tables, where, start_time, end_time, freq,
                   queries, sent, fstate, yielded, dfs, df, returned, timer>>

\* as_completed: the deadline (_timeout + 1) has passed while futures are
\* still to be yielded
Timeout ==
    /\ pc = "gather"
    /\ gen = "waiting"
    /\ \E i \in DOMAIN fstate : i \notin Range(yielded)
    /\ err' = "TimeoutError"
    /\ pc' = "unwind"
    /\ UNCHANGED <<inputs, cache, tables, where, start_time, end_time, freq,
                   queries, sent, batch, df, returned>>

\* the exception leaves the `with ThreadPoolExecutor` block: shutdown(wait=True)
\* returns once no worker is running, then the exception leaves getdf
ExecutorExit ==
    /\ pc = "unwind"
    /\ \A i \in DOMAIN fstate : fstate[i] # "pending"
    /\ pc' = "raised"
    /\ UNCHANGED <<inputs, cache, err, tables, where, start_time, end_time, freq,
                   queries, sent, batch, df, returned>>

\* every future was yielded: the generator ends, getdf merges the frames,
\* resamples and interpolates (lines 208-238) and returns
MergeReturn ==
    /\ pc = "gather"
    /\ gen = "waiting"
    /\ \A i \in DOMAIN fstate : i \in Range(yielded)
    /\ LET piped == Pipeline(dfs, args.resample, args.interpolate)
       IN /\ df' = [cols |-> piped.cols, rows |-> Range(piped.rows)]
          /\ returned' = piped.rows
    /\ pc' = "done"
    /\ UNCHANGED <<inputs, cache, err, tables, where, start_time, end_time, freq,
                   queries, sent, batch>>

\* set_connection_params(timeout=timeout), between getdf calls: rebinds
\* connection._timeout (line 23) and clears the memoized time ranges
\* (clear_caches); the name _timeout in query_base is not rebound
SetConnectionParams(timeout) ==
    /\ pc = "check_table"
    /\ conn' = [conn EXCEPT !.timeout = ClampTimeout(timeout)]
    /\ cache' = {}
    /\ UNCHANGED <<args, now, store, tranges, fn_in, fn_out, pc, err, tables, where,
                   start_time, end_time, freq, queries, sent, batch, df, returned, memo>>

\* the state in which a helper is called on its own, no getdf call under way
HelperInit(Calls) ==
    /\ fn_in \in Calls
    /\ fn_out = NoResult
    /\ args = NoCall
    /\ now = 0
    /\ store = "empty"
    /\ tranges = <<>>
    /\ cache = {}
    /\ pc = "helper"
    /\ err = ""
    /\ tables = <<>>
    /\ where = <<>>
    /\ start_time = NoTime
    /\ end_time = NoTime
    /\ freq = ""
    /\ queries = <<>>
    /\ sent = {}
    /\ fstate = <<>>
    /\ yielded = <<>>
    /\ gen = "idle"
    /\ dfs = <<>>
    /\ ncallback = 0
    /\ df = NoFrame
    /\ returned = <<>>
    /\ conn = ImportedConnection
    /\ timer = 0
    /\ Imported

\* the helper returns v
Return(v) ==
    /\ fn_out = NoResult
    /\ fn_out' = <<v>>
    /\ UNCHANGED <<args, now, store, tranges, conn, fn_in, cache, pc, err, tables, where,
                   start_time, end_time, freq, queries, sent, batch, df, returned, memo>>

\* MODE(series)
CallMode == fn_in.fn = "MODE" /\ Return(_ModeReducer(fn_in.series))

\* _check_columns(table, columns) of the older package
CallCheckColumns ==
    fn_in.fn = "_check_columns" /\ Return(_check_columns(fn_in.table, fn_in.columns))

\* _resample(df, rule)
CallResample ==
    fn_in.fn = "_resample" /\ Return(_resample(fn_in.df, fn_in.rule))

\* _resample(_resample(df, rule), rule): the resampled table is resampled
CallResampleAgain ==
    /\ fn_in.fn = "_resample"
    /\ Len(fn_out) = 1
    /\ fn_out' = Append(fn_out, _resample(fn_out[1], fn_in.rule))
    /\ UNCHANGED <<args, now, store, tranges, conn, fn_in, cache, pc, err, tables, where,
                   start_time, end_time, freq, queries, sent, batch, df, returned, memo>>

\* _interpolate(df, method) returns, [err, df]; without NodeId and Iccid
\* column the table is not grouped (_get_grouped returns df) and
\* group.apply hands _interpolator the single cells, which have no ffill,
\* bfill or interpolate: AttributeError
CallInterpolate ==
    /\ fn_in.fn = "_interpolate"
    /\ Return(IF fn_in.df.cols \cap {"NodeId", "Iccid"} = {}
              THEN [err |-> "AttributeError", df |-> [cols |-> {}, rows |-> <<>>]]
              ELSE [err |-> "", df |-> _interpolate(fn_in.df, fn_in.method)])

\* _interpolate(df, method) and _interpolate(other, method), for two tables
CallInterpolatePair ==
    /\ fn_in.fn = "_interpolate twice"
    /\ Return([df |-> _interpolate(fn_in.df, fn_in.method),
               other |-> _interpolate(fn_in.other, fn_in.method)])

Next ==
    \/ CheckTables
    \/ CheckTime
    \/ CheckFreq
    \/ SubmitQueries
    \/ \E i \in 1..(MaxTables + 1), ok \in BOOLEAN : WorkerFinish(i, ok)
    \/ \E i \in 1..(MaxTables + 1) : YieldFuture(i)
    \/ Resume
    \/ Timeout
    \/ ExecutorExit
    \/ MergeReturn

----------------------------------------------------------------------------
(* The calls checked *)

ArgTables == {"ping", "gps", "modem", "bogus"}

\* user clauses: a column of every table, of no table, of ping and modem only
\* (behind a parenthesis), a literal before the column, no identifier at all
UserClauses ==
    [node    |-> <<"NodeId", " = '", "109", "'">>,
     mode    |-> <<"Mode", " = ", "1">>,
     iccid   |-> <<"(", "Iccid", " = '", "i1", "'", ")">>,
     literal |-> <<"0", " = ", "RTT">>,
     lat     |-> <<"Latitude", " > ", "0">>,
     empty   |-> <<"()">>]

WhereLists ==
    {<<>>, <<UserClauses.node, UserClauses.mode>>, <<UserClauses.iccid, UserClauses.mode>>,
     <<UserClauses.literal, UserClauses.lat>>, <<UserClauses.empty>>}

\* min and max timestamp per table; event holds no data
TimeRanges ==
    [ping |-> <<1000, 3010>>, gps |-> <<2950, 2990>>, sensor |-> <<2500, 3050>>,
     event |-> <<NaT, NaT>>, modem |-> <<1000, 3010>>]

Init ==
    InitWith(SeqsNoRep(ArgTables, MaxTables), {<<>>, <<"109">>}, WhereLists,
             {NoTime, 2900}, {2960}, BOOLEAN, {"", "1s"}, {""}, {"False"}, {3000}, {TimeRanges},
             {"onesim", "twosim", "roaming"})

Spec == Init /\ [][Next]_vars

----------------------------------------------------------------------------
(* Claims on getdf *)

RegisteredTables == {"ping", "gps", "sensor", "event", "modem"}
KeyColumns == {"time", "NodeId", "Iccid"}

\* the columns of a table: its schema's attributes and the time index
ColumnsOf(t) == {"time"} \cup {Schema[t][i][1] : i \in DOMAIN Schema[t]}

HasIdentifier(c) == \E i \in DOMAIN c : c[i] \notin NonWord

\* the leading identifier token of a clause: its first piece made of word characters
LeadingIdentifier(c) ==
    c[CHOOSE i \in DOMAIN c : c[i] \notin NonWord /\ \A j \in 1..(i - 1) : c[j] \in NonWord]

\* every clause of the call: the user's, the node-id clause, the two time bounds
AllClauses ==
    Range(args.where)
    \cup (IF args.nodeid # <<>> THEN {NodeClause(args.nodeid)} ELSE {})
    \cup {TimeGe(start_time), TimeLe(end_time)}

\* C1: in every built query, a clause of the call is in the WHERE part iff its
\* leading identifier is a column of the query's table; a clause whose leading
\* identifier is a column of no table is in no query and raises nothing (the
\* only error of the build is the clause with no identifier at all).
C1_Pushdown ==
    /\ queries # <<>> =>
         \A i \in DOMAIN queries : \A c \in AllClauses :
             (c \in Range(queries[i].where))
                 <=> (LeadingIdentifier(c) \in ColumnsOf(queries[i].table))
    /\ err = "IndexError" => \E c \in Range(args.where) : ~HasIdentifier(c)
    /\ (\A c \in Range(args.where) : HasIdentifier(c)) =>
         err \in {"", "UnknownTable", "NeedTable", "StoreError", "TimeoutError",
                  "AttributeError", "InvalidTimeRange", "InvalidFrequency"}

\* the call returned; one user clause is in some query and not in another,
\* another user clause is in no query
C1_Witness ==
    /\ pc = "done"
    /\ \E c \in Range(args.where) :
         /\ \E i \in DOMAIN queries : c \in Range(queries[i].where)
         /\ \E i \in DOMAIN queries : c \notin Range(queries[i].where)
    /\ \E c \in Range(args.where) :
         \A i \in DOMAIN queries : c \notin Range(queries[i].where)

HasUnknownTable == \E i \in DOMAIN args.tables : args.tables[i] \notin RegisteredTables

\* C2: a tables argument with an unregistered name makes getdf raise the
\* unknown-table error, and nothing (no data query, no time-range probe) has
\* been sent to the store when it does.
C2_UnknownTable ==
    HasUnknownTable =>
        /\ pc \in {"check_table", "raised"}
        /\ pc = "raised" => err = "UnknownTable"
        /\ sent = {}

\* raised for a list whose first name is registered and whose second is not
C2_Witness ==
    /\ pc = "raised"
    /\ err = "UnknownTable"
    /\ Len(args.tables) = 2
    /\ args.tables[1] \in RegisteredTables
    /\ args.tables[2] \notin RegisteredTables

\* C3: getdf returns a table only if every query of the batch succeeded and was
\* yielded; once a query has failed or the batch has timed out, no table is
\* returned, whatever was yielded and converted before.
C3_AllOrNothing ==
    /\ pc = "done" =>
         /\ \A i \in DOMAIN queries : fstate[i] = "ok" /\ i \in Range(yielded)
         /\ Len(yielded) = Len(queries)
         /\ err = ""
    /\ (\E i \in DOMAIN fstate : fstate[i] = "failed") => pc # "done" /\ df = NoFrame
    /\ err \in {"StoreError", "TimeoutError"} => pc \in {"unwind", "raised"} /\ df = NoFrame

\* a query failed after siblings had been yielded and converted; getdf raised
C3_Witness ==
    /\ pc = "raised"
    /\ err = "StoreError"
    /\ dfs # <<>>
    /\ \E i \in DOMAIN fstate : fstate[i] = "failed"
    /\ df = NoFrame

\* the frames of a sequence, in the order p
Permuted(frames, p) == [i \in DOMAIN frames |-> frames[p[i]]]

\* C4: (as claimed) the returned table does not depend on the order in which the
\* queries complete: merging the per-table frames in any order gives its rows.
C4_OrderIndependent ==
    pc = "done" =>
        \A p \in Permutations(DOMAIN dfs) : MergeAll(Permuted(dfs, p)).rows = df.rows

\* the non-key field columns of the requested tables
FieldNames == UNION {ColumnsOf(tables[i]) : i \in DOMAIN tables} \ KeyColumns

FrameOf(t) ==
    LET i == CHOOSE j \in DOMAIN queries : queries[j].table = t
    IN _result_set_to_df(t, Response(store, queries[i], start_time, end_time))

----------------------------------------------------------------------------
(* The time / frequency resolver: the calls checked *)

\* getdf('gps', start_time=<epoch>, end_time=<epoch + span>) for every span
InitFreq ==
    InitWith({<<"gps">>}, {<<>>, <<"109">>}, {<<>>}, {0}, 0..MaxSpan, {FALSE},
             {""}, {""}, {"False"}, {3000}, {TimeRanges}, {"onesim"})

SpecFreq == InitFreq /\ [][Next]_vars

\* time ranges of tables that hold data from long before the window
OldRanges ==
    [ping |-> <<300, 3010>>, gps |-> <<500, 2990>>, sensor |-> <<400, 3050>>,
     event |-> <<NaT, NaT>>, modem |-> <<300, 3010>>]

InitTime ==
    InitWith({<<"gps">>, <<"gps", "sensor">>, <<"sensor", "gps">>, <<"bogus">>},
             {<<>>, <<"109">>}, {<<>>},
             {NoTime, 2900, 2970}, {NoTime, 2940, 2960, 2970}, BOOLEAN,
             {"", "1m", "x"}, {""}, {"False"}, {2980, 3000}, {TimeRanges, OldRanges},
             {"onesim"})

SpecTime == InitTime /\ [][Next]_vars

RegisteredFreqs == {"10ms", "1s", "1m", "30m"}

\* the position of a tier, from the finest to the coarsest
Tier(f) == CASE f = "10ms" -> 1 [] f = "1s" -> 2 [] f = "1m" -> 3 [] f = "30m" -> 4

\* the state right after _check_freq chose the tier from the span
FreqChosen == pc = "submit" /\ args.freq = ""

\* C6: without node filter and explicit granularity the chosen tier is
\* non-decreasing in the span: no shorter span gets a coarser tier.
C6_Monotone ==
    (FreqChosen /\ args.nodeid = <<>>) =>
        \A s1 \in 0..(end_time - start_time) :
            Tier(_check_freq("", s1, <<>>).freq) <= Tier(freq)

\* the coarsest tier was chosen for a span, the finest for a shorter one
C6_Witness ==
    /\ FreqChosen
    /\ args.nodeid = <<>>
    /\ freq = "30m"
    /\ \E s1 \in 0..(end_time - start_time) : _check_freq("", s1, <<>>).freq = "10ms"

\* the tiers by the ceilings the claim names, in ticks of 20 minutes:
\* 8 hours / 2 days / 32 days with a node filter
TierWithFilter(span) ==
    IF span < 24 THEN "10ms" ELSE IF span < 144 THEN "1s" ELSE IF span < 2304 THEN "1m" ELSE "30m"

\* 20 minutes / 1 hour / 20 hours without
TierWithoutFilter(span) ==
    IF span < 1 THEN "10ms" ELSE IF span < 3 THEN "1s" ELSE IF span < 60 THEN "1m" ELSE "30m"

\* C7: for every span the tier chosen with a node filter is never coarser than
\* the tier chosen without; the ceilings are 8 hours / 2 days / 32 days with a
\* filter, 20 minutes / 1 hour / 20 hours without, a span equal to a ceiling
\* falling into the next coarser tier.
C7_FilterFiner ==
    FreqChosen =>
        LET span == end_time - start_time
        IN /\ freq = IF args.nodeid # <<>> THEN TierWithFilter(span)
                     ELSE TierWithoutFilter(span)
           /\ Tier(_check_freq("", span, <<"109">>).freq)
                  <= Tier(_check_freq("", span, <<>>).freq)

\* a span of exactly 8 hours with a node filter: the tier after the finest,
\* and strictly finer than the tier the span gets without filter
C7_Witness ==
    /\ FreqChosen
    /\ args.nodeid # <<>>
    /\ end_time - start_time = 24
    /\ freq = "1s"
    /\ Tier(freq) < Tier(_check_freq("", end_time - start_time, <<>>).freq)

DataSent == \E x \in sent : x[1] = "data"

\* C8: an explicit granularity that is no registered tier makes getdf fail: no
\* table is returned, no data query is sent, and the error is the
\* invalid-frequency one whenever the call got as far as a valid window; a
\* registered explicit granularity is the suffix of every built query, whatever
\* the span and the node filter.
C8_ExplicitFreq ==
    /\ (args.freq # "" /\ args.freq \notin RegisteredFreqs) =>
         /\ pc \in {"check_table", "check_time", "check_freq", "raised"}
         /\ df = NoFrame
         /\ ~DataSent
         /\ (pc = "raised" /\ start_time # NoTime /\ start_time <= end_time)
                => err = "InvalidFrequency"
    /\ args.freq \in RegisteredFreqs =>
         /\ err # "InvalidFrequency"
         /\ pc \in {"submit", "gather", "unwind", "done"} => freq = args.freq
         /\ \A i \in DOMAIN queries : queries[i].freq = args.freq

\* a call with an explicit tier returned, for a window and node filter that
\* would have been given another tier
C8_Witness ==
    /\ pc = "done"
    /\ args.freq = "1m"
    /\ queries # <<>>
    /\ TierWithFilter(end_time - start_time) # "1m"
    /\ TierWithoutFilter(end_time - start_time) # "1m"

\* the invalid-frequency error was raised
C8_WitnessInvalid == pc = "raised" /\ err = "InvalidFrequency" /\ args.freq = "x"

\* C9: a resolved start after the resolved end makes getdf fail with the
\* invalid-time-range error, with or without explicit granularity, before any
\* data query is sent; a window with start equal to end is accepted.
C9_TimeRange ==
    /\ (start_time # NoTime /\ start_time > end_time) =>
         /\ pc \in {"check_freq", "raised"}
         /\ pc = "raised" => err = "InvalidTimeRange"
         /\ ~DataSent
         /\ df = NoFrame
    /\ (start_time # NoTime /\ start_time <= end_time) => err # "InvalidTimeRange"

\* raised for a window the wrong way round, an explicit granularity given
C9_Witness ==
    /\ pc = "raised"
    /\ err = "InvalidTimeRange"
    /\ args.freq # ""
    /\ start_time > end_time

\* a window with start equal to end was queried
C9_WitnessEqual == pc = "done" /\ start_time = end_time /\ DataSent

SetMax(S) == CHOOSE x \in S : \A y \in S : y <= x
SetMin(S) == CHOOSE x \in S : \A y \in S : x <= y

\* C10: (as claimed) an omitted end_time resolves to min(now, latest max
\* timestamp of the requested tables); an omitted start_time resolves to
\* max(resolved end minus 14 days, earliest min timestamp of the tables).
C10_DefaultWindow ==
    (start_time # NoTime) =>
        LET latest == SetMax({tranges[tables[i]][2] : i \in DOMAIN tables})
            earliest == SetMin({tranges[tables[i]][1] : i \in DOMAIN tables})
        IN /\ args.end_time = NoTime => end_time = SetMin({now, latest})
           /\ args.start_time = NoTime =>
                  start_time = SetMax({end_time - 14 * 24 * 3, earliest})

----------------------------------------------------------------------------
(* The resolver on a one-day window with a node filter *)

\* _check_freq chose the tier for a window of one day, a node filter set
OneDayFiltered == FreqChosen /\ args.nodeid # <<>> /\ end_time - start_time = ONE_DAY

\* C19: (as claimed) with a node filter, no explicit granularity and a window
\* of one day, the finest tier ('10ms') is chosen.
C19_FinestTier == OneDayFiltered => freq = "10ms"

\* C19: with a node filter, no explicit granularity and a window of one day,
\* the second tier ('1s') is chosen: one day is not under the 8-hour ceiling
\* but under the 2-day one; the finest tier is chosen exactly for the windows
\* shorter than 8 hours.
C19_SecondTier ==
    (FreqChosen /\ args.nodeid # <<>>) =>
        /\ (end_time - start_time = ONE_DAY => freq = "1s")
        /\ (freq = "10ms" <=> end_time - start_time < 8 * ONE_HOUR)

\* the one-day window with a node filter got the second tier
C19_Witness == OneDayFiltered /\ freq = "1s" /\ queries = <<>>

----------------------------------------------------------------------------
(* The batch timeout after set_connection_params *)

\* the timeouts set_connection_params is called with (0 is raised to 1)
Timeouts == {0, 5, 60}

\* getdf('gps') or getdf('ping'), after any number of set_connection_params calls
InitConn ==
    InitWith({<<"gps">>, <<"ping">>}, {<<>>, <<"109">>}, {<<>>}, {NoTime, 2900}, {2960},
             {FALSE}, {""}, {""}, {"False"}, {3000}, {TimeRanges}, {"onesim"})

NextConn ==
    \/ Next
    \/ \E timeout \in Timeouts : SetConnectionParams(timeout)

SpecConn == InitConn /\ [][NextConn]_vars

\* C20: (as claimed) the timeout query_async applies to a batch is the store
\* timeout currently configured (max(1, int(timeout)) of the latest
\* set_connection_params call) plus one second.
C20_ConfiguredTimeout == timer # 0 => timer = conn.timeout + 1

----------------------------------------------------------------------------
(* The progress callback *)

\* C15: with a callback, query_async calls it once for every result it has
\* yielded, after the consumer took that result and never before: the count is
\* the number of results yielded, less the one the consumer still holds; only
\* successful queries are yielded, so a failed or timed-out query gets no
\* call; when getdf returns, the callback has been called once per query.
C15_CallbackPerResult ==
    args.callback =>
        /\ \A k \in DOMAIN yielded : fstate[yielded[k]] = "ok"
        /\ ncallback = IF gen = "suspended" THEN Len(yielded) - 1 ELSE Len(yielded)
        /\ pc = "done" => ncallback = Len(queries)
        /\ (pc \in {"unwind", "raised"} /\ err \in {"StoreError", "TimeoutError"} /\ queries # <<>>)
               => ncallback < Len(queries)

\* all three queries of a call succeeded and the callback was called three times
C15_Witness == pc = "done" /\ args.callback /\ Len(queries) = 3 /\ ncallback = 3

\* a batch failed after the callback was called for the results before
C15_WitnessFailed ==
    /\ pc = "raised"
    /\ args.callback
    /\ \E i \in DOMAIN fstate : fstate[i] = "failed"
    /\ ncallback = 1
    /\ Len(yielded) = 1

----------------------------------------------------------------------------
(* The mode reducer *)

MaxSeries == 4

RECURSIVE SeqsUpTo(_, _)
\* the sequences over S of length at most n
SeqsUpTo(S, n) ==
    IF n = 0 THEN {<<>>}
    ELSE LET shorter == SeqsUpTo(S, n - 1)
         IN shorter \cup {Append(t, x) : t \in {u \in shorter : Len(u) = n - 1}, x \in S}

\* MODE(series) for every series of labels and nulls up to MaxSeries cells
InitMode ==
    HelperInit([fn : {"MODE"}, series : SeqsUpTo(Range(Labels) \cup {Null}, MaxSeries)])

SpecMode == InitMode /\ [][CallMode]_vars

\* the position of a label in the natural order
Rank(v) == CHOOSE i \in DOMAIN Labels : Labels[i] = v

ModeReturned == fn_in.fn = "MODE" /\ fn_out # NoResult

\* C11: MODE returns NaN for an empty series and for a series without a
\* non-null value; otherwise it returns a value of the series that no other
\* non-null value outnumbers, and among the values that occur as often, the
\* first in the natural order; for [x, x, y] it returns x.
C11_Mode ==
    ModeReturned =>
        LET series == fn_in.series
            vals == Range(series) \ {Null}
            r == fn_out[1]
            Occurs(v) == Cardinality({i \in DOMAIN series : series[i] = v})
        IN /\ vals = {} => r = Null
           /\ vals # {} =>
                /\ r \in vals
                /\ \A v \in vals : Occurs(v) <= Occurs(r)
                /\ \A v \in vals : Occurs(v) = Occurs(r) => Rank(r) <= Rank(v)
           /\ \A x, y \in Range(Labels) :
                (x # y /\ series = <<x, x, y>>) => r = x

\* [B, A, B, A]: two values share the top frequency and the first of them, A,
\* is returned
C11_Witness == ModeReturned /\ fn_in.series = <<"B", "A", "B", "A">> /\ fn_out = <<"A">>

\* [B, B, A] gives B; a series of nulls gives NaN
C11_WitnessXXY == ModeReturned /\ fn_in.series = <<"B", "B", "A">> /\ fn_out = <<"B">>
C11_WitnessNull == ModeReturned /\ fn_in.series = <<Null, Null>> /\ fn_out = <<Null>>

----------------------------------------------------------------------------
(* The column check of the older package *)

MaxColumns == 2

\* requested column texts: spellings of ping columns, with and without a
\* table prefix, a name of no column, the wildcard, the table itself
ColumnTexts ==
    {[prefix |-> "", name |-> "NodeId"], [prefix |-> "", name |-> "nodeid"],
     [prefix |-> "", name |-> "RTT"], [prefix |-> "monroe_exp_ping", name |-> "NodeId"],
     [prefix |-> "ping", name |-> "rtt"], [prefix |-> "", name |-> "bogus"],
     [prefix |-> "", name |-> "*"], [prefix |-> "", name |-> "monroe_exp_ping"]}

InitColumns ==
    HelperInit([fn : {"_check_columns"}, table : {"ping", "monroe_exp_ping"},
                columns : SeqsUpTo(ColumnTexts, MaxColumns)])

SpecColumns == InitColumns /\ [][CallCheckColumns]_vars

ColumnsReturned == fn_in.fn = "_check_columns" /\ fn_out # NoResult

IsWildcard(col) == col.prefix = "" /\ col.name \in {"*", "monroe_exp_ping"}

\* the canonical ping column a requested name stands for, "" if none
Canonical(col) ==
    CASE col.name \in {"NodeId", "nodeid"} -> "NodeId"
      [] col.name \in {"RTT", "rtt"} -> "Rtt"
      [] OTHER -> ""

\* C18: (as claimed) every requested name is resolved, whatever its case and
\* with or without a 'table.' prefix, to the canonical column, the call
\* failing with ValueError if a name matches no column; for '*', an empty
\* list or the table given as a column all columns are returned, each once.
C18_Resolved ==
    ColumnsReturned =>
        LET columns == fn_in.columns
            r == fn_out[1]
        IN /\ (columns = <<>> \/ (Len(columns) = 1 /\ IsWildcard(columns[1]))) =>
                  /\ r.err = ""
                  /\ Range(r.columns) = Range(monroe_members.ping)
                  /\ Len(r.columns) = Len(monroe_members.ping)
           /\ (columns # <<>> /\ \A i \in DOMAIN columns : ~IsWildcard(columns[i])) =>
                  IF \E i \in DOMAIN columns : Canonical(columns[i]) = ""
                  THEN r.err = "ValueError"
                  ELSE r.err = "" /\ r.columns = [i \in DOMAIN columns |-> Canonical(columns[i])]

----------------------------------------------------------------------------
(* The resampler on its own *)

MaxRows == 3

RECURSIVE SubsetsUpTo(_, _)
\* the subsets of S of at most n elements
SubsetsUpTo(S, n) ==
    IF n = 0 THEN {{}}
    ELSE LET smaller == SubsetsUpTo(S, n - 1)
         IN smaller \cup {T \cup {x} : T \in smaller, x \in S}

\* rows of ping data of one node: the first two times lie in one hour, the
\* third two hours later; operator and RTT may be missing
PingRows ==
    [time : {0, 1, 6}, NodeId : {"109"}, Operator : {"A", "B", Null},
     RTT : {"12", "24", Null}]

\* the tables of at most MaxRows of these rows, indexed by time
PingTables ==
    {[cols |-> {"time", "NodeId", "Operator", "RTT"}, rows |-> sort_index(Enumerate(S))] :
        S \in SubsetsUpTo(PingRows, MaxRows) \ {{}}}

InitResample == HelperInit([fn : {"_resample"}, df : PingTables, rule : {"20min", "1h"}])

NextResample == CallResample \/ CallResampleAgain

SpecResample == InitResample /\ [][NextResample]_vars

\* every row of the table lies on the start of a bucket of the rule
Aligned(frame, rule) ==
    \A i \in DOMAIN frame.rows : frame.rows[i].time % RuleTicks(rule) = 0

----------------------------------------------------------------------------
(* The interpolator on its own *)

\* rows of ping data of one node: SIM, operator and RTT may be missing
SimRows ==
    [time : {0, 1, 2}, NodeId : {"109"}, Iccid : {"i1", Null}, Operator : {"A", Null},
     RTT : {"12", "36", Null}]

\* rows of a table with neither NodeId nor Iccid
BareRows == [time : {0, 1, 2}, RTT : {"12", "36", Null}]

\* the tables of at most MaxRows rows, indexed by time
SimTables ==
    {[cols |-> {"time", "NodeId", "Iccid", "Operator", "RTT"},
      rows |-> sort_index(Enumerate(S))] : S \in SubsetsUpTo(SimRows, MaxRows) \ {{}}}
    \cup {[cols |-> {"time", "RTT"}, rows |-> sort_index(Enumerate(S))] :
             S \in SubsetsUpTo(BareRows, MaxRows) \ {{}}}

Methods == {"linear", "ffill", "bfill", "True"}

InitInterpolate == HelperInit([fn : {"_interpolate"}, df : SimTables, method : Methods])

SpecInterpolate == InitInterpolate /\ [][CallInterpolate]_vars

InterpolateReturned == fn_in.fn = "_interpolate" /\ fn_out # NoResult /\ fn_out[1].err = ""

\* C13: the table _interpolate returns has no more rows than the table it
\* was given, for every method; each of its rows is a row of the input with
\* null cells filled in: none is created.
C13_NoNewRows ==
    InterpolateReturned =>
        LET rows_in == fn_in.df.rows
            rows_out == fn_out[1].df.rows
        IN /\ Len(rows_out) <= Len(rows_in)
           /\ \E from \in [DOMAIN rows_out -> DOMAIN rows_in] :
                 /\ \A i, j \in DOMAIN rows_out : i # j => from[i] # from[j]
                 /\ \A i \in DOMAIN rows_out :
                       /\ rows_out[i].time = rows_in[from[i]].time
                       /\ \A c \in fn_in.df.cols \ {"time"} :
                             rows_in[from[i]][c] # Null =>
                                 rows_out[i][c] = rows_in[from[i]][c]

\* a table of three rows came back with two: the row without SIM was
\* dropped, a missing RTT was filled in
C13_Witness ==
    /\ InterpolateReturned
    /\ fn_in.method = "linear"
    /\ Len(fn_in.df.rows) = 3
    /\ Len(fn_out[1].df.rows) = 2
    /\ \E i \in DOMAIN fn_in.df.rows : fn_in.df.rows[i].Iccid = Null
    /\ \E i \in DOMAIN fn_in.df.rows :
          fn_in.df.rows[i].Iccid # Null /\ fn_in.df.rows[i].RTT = Null
    /\ \A i \in DOMAIN fn_out[1].df.rows : fn_out[1].df.rows[i].RTT # Null

\* a table without NodeId and Iccid: the call raised
C13_WitnessBare == fn_in.fn = "_interpolate" /\ fn_out # NoResult /\ fn_out[1].err # ""

----------------------------------------------------------------------------
(* getdf with resample and interpolate *)

\* getdf('ping') and getdf(['gps', 'ping']) for node 109 over a window of
\* eight ticks that ends two ticks into an hour, with and without
\* resample='1h', with and without interpolation
InitPipe ==
    InitWith({<<"ping">>, <<"gps", "ping">>}, {<<"109">>}, {<<>>}, {2952}, {2960}, {FALSE},
             {""}, {"", "1h"}, {"False"} \cup Methods, {3000}, {TimeRanges},
             {"onesim", "hour", "hourmixed", "hourgap", "hourlate", "twohours"})

SpecPipe == InitPipe /\ [][Next]_vars

\* getdf('ping', resample='1h') returned, the store holding three ping rows
\* of one SIM of the node, all in the hour the window ends in
PingHour ==
    /\ pc = "done"
    /\ args.tables = <<"ping">>
    /\ args.resample = "1h"
    /\ args.interpolate = "False"
    /\ store \in HourStores
    /\ Bucket(end_time - 2, "1h") = Bucket(end_time, "1h")

\* the three raw ping rows
RawPing == UNION {g.rows : g \in StoreGroups(store, "ping", start_time, end_time)}

PingLabels == {"NodeId", "Iccid", "Operator", "Host", "Interface"}

C12_WitnessMixed ==
    /\ PingHour
    /\ store = "hourmixed"
    /\ Len(returned) = 2
    /\ \E i, j \in DOMAIN returned :
          /\ returned[i].Operator = "A" /\ returned[i].RTT = "9"
          /\ returned[j].Operator = "B" /\ returned[j].RTT = "24"

\* a modem row with the first ping row only: the other two are left out
C12_WitnessGap ==
    PingHour /\ store = "hourgap" /\ Len(returned) = 1 /\ returned[1].RTT = "6"

----------------------------------------------------------------------------
(* the time index of the returned table *)

\* C16: every non-empty table returned by getdf has its time index in
\* non-decreasing order, with and without a resample rule, with and without
\* interpolation, in whatever order the queries completed.
C16_Ascending ==
    (pc = "done" /\ returned # <<>>) =>
        \A i, j \in DOMAIN returned : i < j => returned[i].time <= returned[j].time

\* a table of two SIMs over two hours, resampled and interpolated: the rows
\* come out of the grouping SIM by SIM and are put back in order
C16_Witness ==
    /\ pc = "done"
    /\ store = "twohours"
    /\ args.resample = "1h"
    /\ args.interpolate = "linear"
    /\ Len(returned) >= 3
    /\ \E i, j \in DOMAIN returned :
          i < j /\ returned[i].time < returned[j].time /\ returned[i].Iccid = "i2"
                /\ returned[j].Iccid = "i1"

\* the same without resample and interpolation, the queries having
\* completed in the reverse of the order they were submitted in
C16_WitnessPlain ==
    /\ pc = "done"
    /\ args.resample = ""
    /\ args.interpolate = "False"
    /\ Len(returned) >= 2
    /\ Len(dfs) >= 2
    /\ returned[1].time < returned[Len(returned)].time

----------------------------------------------------------------------------
(* interpolation and the null cells of the returned table *)

\* df.isnull().sum().sum(): the number of null cells of a table
NullCells(rows) ==
    Cardinality(UNION {{<<i, c>> : c \in {k \in DOMAIN rows[i] \ {"time"} : rows[i][k] = Null}} :
                       i \in DOMAIN rows})

\* what getdf returns for the same results without interpolation
Uninterpolated == Pipeline(dfs, args.resample, "False")

\* the uninterpolated table has a null cell (row i, column c) in a
\* NodeId/Iccid group that holds a value of c on a side the method fills
\* from: an earlier row for ffill, a later row for bfill; for linear (True)
\* any other row if c is numeric, an earlier row if it is not
Fillable(method) ==
    LET rows == Uninterpolated.rows
        by == Uninterpolated.cols \cap {"NodeId", "Iccid"}
        Keyed(i) == \A c \in by : rows[i][c] # Null
        Same(i, j) == Keyed(i) /\ Keyed(j) /\ \A c \in by : rows[i][c] = rows[j][c]
        From(i, j, c) ==
            IF method = "ffill" THEN j < i
            ELSE IF method = "bfill" THEN j > i
            ELSE IF c \in NumericFields THEN j # i
            ELSE j < i
    IN \E i, j \in DOMAIN rows : \E c \in Uninterpolated.cols \ {"time"} :
          /\ rows[i][c] = Null
          /\ rows[j][c] # Null
          /\ Same(i, j)
          /\ From(i, j, c)

\* C17: for each of the methods 'linear', 'ffill', 'bfill' and True,
\* getdf(tables, interpolate=method) has no more null cells than getdf(tables)
\* has on the same query results, and fewer when the uninterpolated table
\* has a null cell with a value of its column on a side the method fills
\* from, within the same NodeId/Iccid group.
C17_FewerNulls ==
    (pc = "done" /\ args.interpolate \in Methods) =>
        /\ NullCells(returned) <= NullCells(Uninterpolated.rows)
        /\ Fillable(args.interpolate) =>
              NullCells(returned) < NullCells(Uninterpolated.rows)

\* a fillable null cell, filled
C17_Witness ==
    /\ pc = "done"
    /\ args.interpolate \in Methods
    /\ Fillable(args.interpolate)
    /\ NullCells(returned) < NullCells(Uninterpolated.rows)

\* linear leaves a label with values only in later rows of its group null
C17_WitnessLabel ==
    /\ pc = "done"
    /\ args.interpolate = "linear"
    /\ Fillable("bfill")
    /\ ~Fillable("linear")
    /\ NullCells(returned) = NullCells(Uninterpolated.rows)
    /\ NullCells(returned) > 0

\* every table that is interpolated holds the NodeId column
KeyedTables ==
    (pc = "done" /\ dfs # <<>>) => "NodeId" \in MergeAll(dfs).cols

----------------------------------------------------------------------------
(* The memoized lookups, called from one thread *)

\* a program that calls nodes_for_table() and, for one node after the other
\* and over again, table_timerange('ping', node), any call possibly twice,
\* the store answering every query; near the start of a pass over the
\* nodes it may call set_connection_params
InitMemo == HelperInit({[fn |-> "lookups"]})

\* the nodes asked for: one more than a cache holds
Nodes == 1..(maxsize("table_timerange") + 1)

NextMemo ==
    \/ setter.pc = "idle" /\ \E k \in {thr.node, (thr.node % Cardinality(Nodes)) + 1} :
                                 Call("table_timerange", k)
    \/ setter.pc = "idle" /\ Call("nodes_for_table", 0)
    \/ Query(TRUE)
    \/ Insert
    \/ thr.pc \in {"idle", "returned"} /\ thr.node <= 4 /\ SetGlobals
    \/ ResetClient
    \/ CacheClear

SpecMemo == InitMemo /\ [][NextMemo]_vars

\* the last n elements of s
LastN(s, n) == SubSeq(s, IF Len(s) > n THEN Len(s) - n + 1 ELSE 1, Len(s))

\* whatever a cache holds was fetched under the current parameters, and a
\* lookup called after set_connection_params returned returns such a value
FreshValues ==
    /\ setter.pc = "idle" =>
          \A f \in Range(Memoized) : \A i \in DOMAIN lru[f] : lru[f][i].value = params
    /\ (thr.pc = "returned" /\ thr.began = params) => thr.value = params

\* C21: (as claimed) between two set_connection_params calls a lookup
\* queries the store at most once for the same arguments: a call that goes
\* to the store has arguments the lookup has not returned for since the
\* caches were cleared; and after set_connection_params no value fetched
\* under the earlier parameters is returned.
C21_QueriedOnce ==
    /\ thr.pc = "miss" => thr.key \notin Range(used[thr.f])
    /\ FreshValues

\* C21: between two set_connection_params calls a lookup queries the store
\* again for the same arguments only if, since it last returned for them,
\* it returned for at least maxsize other arguments (128; lookups without
\* arguments never), its cache holding the maxsize most recently used
\* arguments; and after set_connection_params the caches are empty, so the
\* next call queries the store, and no value fetched under the earlier
\* parameters is returned.
C21_QueriedOncePerResidence ==
    /\ thr.pc = "miss" => thr.key \notin Range(LastN(used[thr.f], maxsize(thr.f)))
    /\ setter.pc = "idle" =>
          \A f \in Range(Memoized) :
             [i \in DOMAIN lru[f] |-> lru[f][i].key] = LastN(used[f], maxsize(f))
    /\ FreshValues

\* after set_connection_params a repeated call is answered from the cache
\* with a value fetched under the new parameters
C21_Witness ==
    /\ thr.pc = "returned"
    /\ thr.hit
    /\ params = 1
    /\ thr.began = 1
    /\ thr.value = 1

\* the first call after set_connection_params goes to the store although
\* it was answered before
C21_WitnessRequery ==
    /\ thr.pc = "miss"
    /\ params = 1
    /\ used[thr.f] = <<>>
    /\ thr.f = "nodes_for_table"

\* the cache of table_timerange is full and the oldest arguments are asked again
C21_WitnessEvicted ==
    /\ thr.pc = "miss"
    /\ thr.f = "table_timerange"
    /\ Len(lru[thr.f]) = maxsize(thr.f)
    /\ thr.key \in Range(used[thr.f])

----------------------------------------------------------------------------
(* The memoized lookups and set_connection_params in two threads *)

\* one thread calls table_timerange('ping', node) for two nodes and
\* nodes_for_table(), another calls set_connection_params; their steps
\* interleave in every way, and queries may fail
NextRace ==
    \/ \E k \in {1, 2} : Call("table_timerange", k)
    \/ Call("nodes_for_table", 0)
    \/ \E ok \in BOOLEAN : Query(ok)
    \/ Insert
    \/ SetGlobals
    \/ ResetClient
    \/ CacheClear

SpecRace == InitMemo /\ [][NextRace]_vars

\* C22: a lookup called after set_connection_params has returned (and
\* before it is called again) never returns a value that was fetched under
\* earlier parameters, whatever lookup was in flight while the caches were
\* cleared.
C22_NoStaleValue ==
    (thr.pc = "returned" /\ thr.began = params) => thr.value = params

\* the lookup in flight during set_connection_params has left what it
\* fetched through the old client in the cleared cache
C22_StaleEntry ==
    /\ setter.pc = "idle"
    /\ params = 1
    /\ \E i \in DOMAIN lru["table_timerange"] : lru["table_timerange"][i].value = 0

----------------------------------------------------------------------------
(* The queries getdf builds *)

\* the clauses getdf collected whose leading identifier is a column of t
PushedDown(t) ==
    SelectSeq(where, LAMBDA c : HasIdentifier(c) /\ LeadingIdentifier(c) \in ColumnsOf(t))

\* an auxiliary modem query is due: modem is not requested and a requested
\* table has an Iccid column
AuxiliaryDue ==
    /\ "modem" \notin Range(tables)
    /\ \E i \in DOMAIN tables : "Iccid" \in ColumnsOf(tables[i])

C23_WitnessRequested ==
    /\ tables = <<"ping", "modem">>
    /\ Len(queries) = 2

\* gps alone: no Iccid column, no auxiliary query
C23_WitnessNoIccid ==
    /\ tables = <<"gps">>
    /\ Len(queries) = 1

----------------------------------------------------------------------------
(* The queries of a getdf call with a resample rule *)

\* one aggregation expression func(col) per column of t that is not a
\* grouping key, func being the function the column is registered with
AggregationExpressions(t) ==
    SelectSeq([i \in DOMAIN Schema[t] |-> <<Schema[t][i][2], Schema[t][i][1]>>],
              LAMBDA e : e[1] \in {"mean", "sum", "max", "mode"})

\* the grouping keys of t
GroupingKeys(t) == {Schema[t][i][1] : i \in {j \in DOMAIN Schema[t] : Schema[t][j][2] = _GROUP_BY}}

\* C24: (as claimed) with a resample rule the query of every requested
\* table selects one aggregation expression per non-key column and groups
\* by the time bucket and the table's grouping keys; without one it selects
\* the raw columns and groups by the grouping keys only.
C24_AggregatedWhenResampled ==
    queries # <<>> =>
        \A i \in DOMAIN tables :
            /\ Range(queries[i].groupby) = GroupingKeys(tables[i])
            /\ IF args.resample # ""
               THEN /\ queries[i].select = AggregationExpressions(tables[i])
                    /\ queries[i].bucket = args.resample
               ELSE /\ queries[i].select = <<"*">>
                    /\ queries[i].bucket = ""

\* what the code does: the raw columns, grouped by the grouping keys only,
\* with and without a resample rule
C24_RawAlways ==
    queries # <<>> =>
        \A i \in DOMAIN tables :
            /\ Range(queries[i].groupby) = GroupingKeys(tables[i])
            /\ queries[i].select = <<"*">>
            /\ queries[i].bucket = ""

\* getdf('ping', resample='1h') has built its queries
C24_Witness ==
    /\ args.resample = "1h"
    /\ queries # <<>>
    /\ queries[1].table = "ping"
    /\ queries[1].select = <<"*">>

----------------------------------------------------------------------------
(* The batch timeout *)

\* getdf('ping') and getdf(['ping', 'gps']) for node 109 with both bounds given
InitLive ==
    InitWith({<<"ping">>, <<"ping", "gps">>}, {<<"109">>}, {<<>>}, {2900}, {2960}, {FALSE},
             {""}, {""}, {"False"}, {3000}, {TimeRanges}, {"onesim", "twosim"})

\* the steps of the thread that called getdf
CallerStep ==
    \/ CheckTables
    \/ CheckTime
    \/ CheckFreq
    \/ SubmitQueries
    \/ \E i \in 1..(MaxTables + 1) : YieldFuture(i)
    \/ Resume
    \/ ExecutorExit
    \/ MergeReturn

\* the calling thread is scheduled as long as it can take a step; when a
\* worker's client.query returns is up to the store and the network
SpecLive == InitLive /\ [][Next]_vars /\ WF_vars(CallerStep)

\* the same, every worker returning in the end
SpecLiveWorkers ==
    SpecLive /\ WF_vars(\E i \in 1..(MaxTables + 1), ok \in BOOLEAN : WorkerFinish(i, ok))

\* as_completed has raised TimeoutError and the caller has not got it yet
TimedOut == pc = "unwind" /\ err = "TimeoutError"

\* C25: whenever the batch timeout elapses with a query outstanding, the
\* timeout error eventually reaches the caller, also while an outstanding
\* worker has not returned, and no result of a query outstanding at that
\* moment is delivered to the caller.
C25_TimeoutReachesCaller ==
    /\ TimedOut ~> (pc = "raised" /\ err = "TimeoutError")
    /\ [][TimedOut => (dfs' = dfs /\ yielded' = yielded /\ pc' # "done")]_vars

\* the error reaches the caller only once no worker is running any more
C25_RaisedAfterWorkers ==
    (pc = "raised" /\ err = "TimeoutError") => \A i \in DOMAIN fstate : fstate[i] # "pending"

\* the timeout has elapsed and a worker has not returned
C25_Witness == TimedOut /\ \E i \in DOMAIN fstate : fstate[i] = "pending"

----------------------------------------------------------------------------
(* What _interpolate fills a cell with *)

C26_WitnessBfill ==
    /\ InterpolateReturned
    /\ fn_in.method = "bfill"
    /\ fn_out[1].err = ""
    /\ Len(fn_out[1].df.rows) = 2
    /\ fn_in.df.rows[1].Operator = Null
    /\ fn_in.df.rows[1].RTT = Null
    /\ fn_out[1].df.rows[1].Operator = "A"
    /\ fn_out[1].df.rows[1].RTT = "36"

\* 'linear' fills a leading number with the first value: both directions
C26_WitnessLeading ==
    /\ InterpolateReturned
    /\ fn_in.method = "linear"
    /\ fn_out[1].err = ""
    /\ Len(fn_out[1].df.rows) = 2
    /\ fn_in.df.rows[1].RTT = Null
    /\ fn_out[1].df.rows[1].RTT = "12"

----------------------------------------------------------------------------
(* Interpolation and the other entities of the table *)

MaxGroupRows == 2

\* rows of the SIM i1 and rows of the SIM i2 of node 109, with their values
\* or without any
OwnRows ==
    [time : {0, 1, 2}, NodeId : {"109"}, Iccid : {"i1"}, Operator : {"A"}, RTT : {"12"}]
    \cup [time : {0, 1, 2}, NodeId : {"109"}, Iccid : {"i1"}, Operator : {Null}, RTT : {Null}]
OtherRows ==
    [time : {0, 1, 2}, NodeId : {"109"}, Iccid : {"i2"}, Operator : {"B"}, RTT : {"36"}]
    \cup [time : {0, 1, 2}, NodeId : {"109"}, Iccid : {"i2"}, Operator : {Null}, RTT : {Null}]

\* the table of the rows S, indexed by time
TableOf(S) ==
    [cols |-> {"time", "NodeId", "Iccid", "Operator", "RTT"}, rows |-> sort_index(Enumerate(S))]

\* two tables with the same rows of i1 and any rows of i2, the second table
\* with one row less at most
InitPair ==
    HelperInit({[fn |-> "_interpolate twice", df |-> TableOf(own \cup o1),
                 other |-> TableOf(own \cup o2), method |-> m] :
                    own \in SubsetsUpTo(OwnRows, MaxGroupRows) \ {{}},
                    o1 \in SubsetsUpTo(OtherRows, MaxGroupRows),
                    o2 \in SubsetsUpTo(OtherRows, MaxGroupRows - 1),
                    m \in Methods})

SpecPair == InitPair /\ [][CallInterpolatePair]_vars

\* the rows of the SIM i1, in the order of the table
OfOwn(rows) == SelectSeq(rows, LAMBDA r : r.Iccid = "i1")

C27_WitnessFilled ==
    /\ fn_in.fn = "_interpolate twice"
    /\ fn_out # NoResult
    /\ Len(fn_in.df.rows) = 3
    /\ Len(fn_out[1].df.rows) = 3
    /\ fn_in.df.rows[1].Iccid = "i1" /\ fn_in.df.rows[1].RTT = "12"
    /\ fn_in.df.rows[2].Iccid = "i2" /\ fn_in.df.rows[2].RTT = "36"
    /\ fn_in.df.rows[3].Iccid = "i1" /\ fn_in.df.rows[3].RTT = Null
    /\ fn_out[1].df.rows[3].RTT = "12"

----------------------------------------------------------------------------
(* The defaulted time window *)

\* the store's clock is ahead of the caller's: every row is later than now
FutureRanges ==
    [ping |-> <<3020, 3040>>, gps |-> <<3020, 3040>>, sensor |-> <<3030, 3050>>,
     event |-> <<NaT, NaT>>, modem |-> <<3020, 3040>>]

\* getdf(tables) with start_time and end_time omitted, for gps, sensor and
\* event (which holds no data) alone and in pairs, in either order
InitWindow ==
    InitWith(SeqsNoRep({"gps", "sensor", "event"}, 2) \ {<<>>}, {<<>>, <<"109">>}, {<<>>},
             {NoTime}, {NoTime}, {FALSE}, {""}, {""}, {"False"}, {2980, 3000},
             {TimeRanges, OldRanges, FutureRanges}, {"onesim"})

SpecWindow == InitWindow /\ [][Next]_vars

\* _check_time has resolved the window of a call without start_time and end_time
Defaulted == args.start_time = NoTime /\ args.end_time = NoTime /\ start_time # NoTime

\* C28: a call with start_time and end_time omitted resolves a window with
\* start <= end and does not fail with the invalid-time-range error,
\* whatever time ranges the tables report.
C28_DefaultWindowOrdered ==
    /\ Defaulted => start_time <= end_time
    /\ (args.start_time = NoTime /\ args.end_time = NoTime) => err # "InvalidTimeRange"

\* the rows of the requested tables are all later than now: the window ends
\* now and starts at the first row
C28_Witness ==
    /\ Defaulted
    /\ pc = "raised"
    /\ err = "InvalidTimeRange"
    /\ end_time = now
    /\ start_time > now

\* with data not later than now the defaulted window is in order
C28_OrderedIfPast ==
    (/\ Defaulted
     /\ \E i \in DOMAIN tables : TsLess(tranges[tables[i]][1], now + 1)) =>
        start_time <= end_time

----------------------------------------------------------------------------
(* The time and node restrictions of the built queries *)

\* getdf of ping, gps, sensor or modem, alone or ping with another, without
\* node filter, for one node and for two, with and without user clauses and
\* with the start given or defaulted
InitNodes ==
    InitWith({<<"ping">>, <<"gps">>, <<"modem">>, <<"ping", "modem">>, <<"sensor", "ping">>},
             {<<>>, <<"109">>, <<"109", "110">>},
             {<<>>, <<UserClauses.iccid, UserClauses.mode>>},
             {NoTime, 2900}, {2960}, {FALSE}, {""}, {""}, {"False"}, {3000},
             {TimeRanges}, {"onesim"})

SpecNodes == InitNodes /\ [][Next]_vars

\* the clause c is ( NodeId = 'n1' OR NodeId = 'n2' ... ) over the nodes given
IsNodeDisjunction(c, nodes) ==
    /\ Len(c) = 5 * Len(nodes) + 1
    /\ c[1] = "("
    /\ c[Len(c)] = ")"
    /\ \A k \in DOMAIN nodes :
          /\ SubSeq(c, 5 * k - 3, 5 * k) = <<"NodeId", " = '", nodes[k], "'">>
          /\ k < Len(nodes) => c[5 * k + 1] = " OR "

\* how many of the clauses satisfy P
HowMany(clauses, P(_)) == Cardinality({n \in DOMAIN clauses : P(clauses[n])})

\* C29: every query getdf builds, the auxiliary modem query included, has
\* the clause time >= start and the clause time <= end, each once, and,
\* when a node filter is given, the parenthesised disjunction of the node
\* conditions, once.
C29_Restricted ==
    queries # <<>> =>
        \A i \in DOMAIN queries :
            /\ HowMany(queries[i].where,
                       LAMBDA c : c = <<"time", " >= '", ToString(start_time), "'">>) = 1
            /\ HowMany(queries[i].where,
                       LAMBDA c : c = <<"time", " <= '", ToString(end_time), "'">>) = 1
            /\ args.nodeid # <<>> =>
                  HowMany(queries[i].where,
                          LAMBDA c : IsNodeDisjunction(c, args.nodeid)) = 1

\* getdf('ping', nodeid=[109, 110], where=...) with the start defaulted: the
\* auxiliary modem query has the three clauses, and the user's clause on Iccid
C29_Witness ==
    /\ pc = "done"
    /\ args.nodeid = <<"109", "110">>
    /\ args.start_time = NoTime
    /\ args.where # <<>>
    /\ tables = <<"ping">>
    /\ Len(queries) = 2
    /\ queries[2].table = "modem"
    /\ Len(queries[2].where) = 4
    /\ HowMany(queries[2].where, LAMBDA c : IsNodeDisjunction(c, args.nodeid)) = 1

----------------------------------------------------------------------------
(* Tables without data and the defaulted window *)

\* the requested tables that hold data
WithData == SelectSeq(tables, LAMBDA t : tranges[t][1] # NaT)

\* the window _check_time resolves from the time ranges of the tables tbls
WindowOf(tbls) ==
    _check_time(NoTime, NoTime, FALSE, [i \in DOMAIN tbls |-> tranges[tbls[i]]], now)

\* C30: a requested table without data has no part in the defaulted window:
\* start and end are those resolved from the other requested tables alone,
\* and if no requested table has data the window ends now and starts at the
\* default of 14 days before (the midnight _check_time counts back to).
C30_EmptyTableIgnored ==
    Defaulted =>
        IF WithData = <<>>
        THEN /\ end_time = now
             /\ start_time = FromOrdinalMinus14(now)
        ELSE /\ end_time = WindowOf(WithData).end_time
             /\ start_time = WindowOf(WithData).start_time

\* what the code does: a table without data that is named first hides the
\* ranges of the tables after it, one named later has no part
C30_FirstTableDecides ==
    Defaulted =>
        IF tranges[tables[1]][1] = NaT
        THEN /\ end_time = now
             /\ start_time = FromOrdinalMinus14(now)
        ELSE /\ end_time = WindowOf(WithData).end_time
             /\ start_time = WindowOf(WithData).start_time

\* getdf(['event', 'gps']): the window ends now although gps ends before
C30_Witness ==
    /\ Defaulted
    /\ tables = <<"event", "gps">>
    /\ tranges["gps"][2] < now
    /\ end_time = now

\* getdf(['gps', 'event']): the window ends with gps
C30_WitnessLast ==
    /\ Defaulted
    /\ tables = <<"gps", "event">>
    /\ tranges["gps"][2] < now
    /\ end_time = tranges["gps"][2]

====
